---- MODULE Spec2Model ----
(***************************************************************************)
(* Model of the cursor-based lock-free JobQueue<T> (job_queue.h, the ring  *)
(* with two atomic cursors m_write / m_read over a UniqueBuffer<T>).       *)
(*                                                                         *)
(* Every access to an atomic cursor and every access to a storage slot is  *)
(* one step of the calling thread; the steps of different threads          *)
(* interleave freely.  The element type is the test suite's Task           *)
(* (std::size_t): a slot is value-initialised to 0 and std::move of a slot *)
(* copies it and leaves the slot content in place.  The plain (non-atomic) *)
(* slot accesses of racing threads are serialised in either order, so a    *)
(* racing read returns one of the values stored by the racing writers.     *)
(* The atomic loads, stores and exchanges take effect in the order of the  *)
(* interleaving (no reordering of a thread's own accesses is modelled).    *)
(*                                                                         *)
(* The module also models the count-based draft of the queue (m_count     *)
(* next to cursors that wrap at m_capacity) and the mutex-guarded          *)
(* ArenaAllocator, each with its own specification.                        *)
(*                                                                         *)
(* Variables whose comment says "history" record what happened; no guard   *)
(* of the program reads them.                                              *)
(***************************************************************************)
EXTENDS Integers, Naturals, Sequences, FiniteSets, TLC

\* ------------------------------------------------------------------ bounds
NumThreads == 2      \* threads calling into the queues
NumQueues  == 2      \* JobQueue instances
MaxCap     == 2      \* largest capacity a queue is constructed with
MaxVal     == 3      \* number of distinct task tokens handed to push
CursorBits == 5      \* width of the size_t cursors in the model
AddrBits    == 5     \* arena: width of uintptr_t / size_t in the model
MaxAlignLog == 2     \* arena: the largest alignment requested is 2^MaxAlignLog
MaxArena    == 6     \* arena: largest buffer size
MaxObj      == 3     \* arena: largest small object size
MaxCalls    == 3     \* arena: number of allocate calls
MaxResets   == 1     \* arena: number of reset calls
MaxN        == 2     \* SmallVector: largest inline capacity N
MaxId       == 2     \* SmallVector: number of distinct element values
MaxIndex    == 5     \* SmallVector: largest index passed to at and operator[]
NumBuffers  == 3     \* UniqueBuffer: number of objects
MaxBlocks   == 2     \* UniqueBuffer: number of arrays make_unique allocates
MaxSize     == 2     \* UniqueBuffer: largest size passed to the constructor
MaxOps      == 4     \* SmallVector: number of push_back calls made on the vector

Threads  == 1..NumThreads
Queues   == 1..NumQueues
Modulus  == 2^CursorBits
NoVal    == 0 - 1    \* history marker: claimed, value not moved out yet
ZeroInit == 0        \* content of a value-initialised slot
ArenaBase == 2 * 2^MaxAlignLog   \* m_buffer.data(): aligned for every type

VARIABLES
  m_capacity,  \* [Queues -> Nat]            JobQueue::m_capacity
  m_write,     \* [Queues -> 0..Modulus-1]   JobQueue::m_write (atomic)
  m_read,      \* [Queues -> 0..Modulus-1]   JobQueue::m_read  (atomic)
  m_entries,   \* [Queues -> [slot -> value]] JobQueue::m_entries
  pc,          \* [Threads -> position in push / pop / steal]
  op,          \* [Threads -> "none" | "push" | "pop" | "steal"] current or last call
  self,        \* [Threads -> Queues]  the object the call is made on (this)
  victim,      \* [Threads -> Queues]  the queue whose cursors and slots the call uses
  item,        \* [Threads -> value]   push's argument
  tail,        \* [Threads -> cursor]  local size_t tail
  head,        \* [Threads -> cursor]  local size_t head
  out,         \* [Threads -> value]   the caller's out variable
  ret,         \* [Threads -> "none" | "run" | "true" | "false"] result of the last call
  nextVal,     \* next unused task token
  wlog,        \* history: [Queues -> Seq([item, slot])], pushes in write-cursor claim order
  rlog,        \* history: [Queues -> Seq(value)], pops/steals in read-cursor claim order
  claim,       \* history: [Threads -> index into rlog of the read claim the thread holds]
  sawFull,     \* history: [Threads -> BOOLEAN] the target held m_capacity elements during the call
  sawEmpty,    \* history: [Threads -> BOOLEAN] the target held no element during the call
  didStore,    \* history: [Threads -> BOOLEAN] the call has stored into a storage slot
  ref,         \* reference bounded FIFO fed with the same calls (sequential runs)
  refRet,      \* result of the reference FIFO for the last call
  refOut,      \* the reference FIFO's out variable
  mirror,      \* twin run: the call on Q1 that the twin queue has still to repeat
  m_count,           \* [Queues -> Nat]  count-based draft: JobQueue::m_count
  current_count,     \* [Threads -> Nat] draft push / pop / steal: current_count
  next_count,        \* [Threads -> Nat] draft push / pop / steal: next_count
  current_offset,    \* [Threads -> Nat] try_claim_entry: current_offset
  next_position,     \* [Threads -> Nat] try_claim_entry: next_position
  claimed_position,  \* [Threads -> Nat] write_index / read_index
  hasClaimed,        \* history: [Threads -> BOOLEAN] the call has advanced a cursor
  wroteOut,          \* history: [Threads -> BOOLEAN] the call has assigned its out argument
  ahead,             \* history: [Queues -> Int] claims made through m_write minus claims made through m_read
  m_start,           \* ArenaAllocator::m_start
  m_end,             \* ArenaAllocator::m_end
  m_current,         \* ArenaAllocator::m_current, as an address
  m_mutex,           \* ArenaAllocator::m_mutex: the thread holding it, 0 if free
  object_size,       \* [Threads -> Nat] allocate: object_size
  object_alignment,  \* [Threads -> Nat] allocate: object_alignment
  current_addr,      \* [Threads -> Nat] allocate: current_addr
  aligned_addr,      \* [Threads -> Nat] allocate: aligned_addr
  returned,          \* [Threads -> Nat] the pointer allocate returned, 0 for nullptr
  chunks,            \* history: the [p, size] of the successful allocations, in order
  numCalls,          \* history: number of allocate calls made
  numResets,         \* history: number of reset calls made
  fresh_current,     \* m_current of a fresh arena given the calls made since the last reset
  fresh_returned,    \* the pointer the fresh arena returned for the last call
  N,                 \* SmallVector<T, N>: the template argument N
  sv,                \* the SmallVector: [m_size, m_capacity, m_on_stack, m_storage]
  sv_prev,           \* history: the SmallVector before the last call
  sv_op,             \* history: the last call on the vector, [name, arg]
  sv_ret,            \* "none" | "void" | "value" | "out_of_range" | "fault"
  sv_out,            \* the element the last at / operator[] returned
  destroyed,         \* history: the indexes whose ~T() the last call ran, in order
  pushed,            \* history: the values push_back was given, in order
  popped,            \* history: pop_back or clear has been called
  ub,                \* [Buffers -> [constructed, m_size, m_buffer]] the UniqueBuffer objects
  heap,              \* [Blocks -> [state, len]] the arrays of make_unique<T[]>
  ub_pc,             \* position inside the move constructor / move assignment
  ub_op,             \* the current or last call: [name, dst, src, i]
  ub_prev,           \* history: the objects before the call
  ub_ret,            \* "none" | "void" | "ref" | "out_of_range"
  ub_out,            \* the slot operator[] returned a reference to: [block, slot]
  iterations,        \* history: [Threads -> Nat] loop iterations the call has started
  claimsAtCall       \* history: [Threads -> Nat] claims made on the call's cursor before the call

vars == <<m_capacity, m_write, m_read, m_entries, pc, op, self, victim, item,
          tail, head, out, ret, nextVal, wlog, rlog, claim, sawFull, sawEmpty,
          didStore, mirror, m_count, current_count, next_count, current_offset,
          next_position, claimed_position, hasClaimed, wroteOut, ahead, m_start, m_end,
          m_current, m_mutex, object_size, object_alignment, current_addr,
          aligned_addr, returned, chunks, numCalls,
          numResets, fresh_current, fresh_returned,
          N, sv, sv_prev, sv_op, sv_ret, sv_out, destroyed, pushed, popped,
          ub, heap, ub_pc, ub_op, ub_prev, ub_ret, ub_out,
          iterations, claimsAtCall,
          ref, refRet, refOut>>

queueVars == <<m_capacity, m_write, m_read, m_entries>>
refVars   == <<ref, refRet, refOut>>
draftVars == <<m_count, current_count, next_count, current_offset, next_position,
               claimed_position, hasClaimed, wroteOut, ahead>>
arenaVars == <<m_start, m_end, m_current, m_mutex, object_size, object_alignment,
               current_addr, aligned_addr, returned, chunks, numCalls>>
freshVars == <<numResets, fresh_current, fresh_returned>>
vectorVars == <<N, sv, sv_prev, sv_op, sv_ret, sv_out, destroyed, pushed, popped>>
bufferVars == <<ub, heap, ub_pc, ub_op, ub_prev, ub_ret, ub_out>>
retryVars == <<iterations, claimsAtCall>>
moreVars  == <<vectorVars, bufferVars, retryVars>>
extraVars == <<freshVars, moreVars>>
otherVars == <<mirror, draftVars, arenaVars, extraVars>>
histVars  == <<wlog, rlog, claim, sawFull, sawEmpty, didStore, refVars, otherVars>>

\* ------------------------------------------------------------ pure helpers
\* size_t arithmetic: unsigned, modulo 2^CursorBits
USub(a, b) == (a - b) % Modulus
UInc(a)    == (a + 1) % Modulus

Slots(c) == 0..(c - 1)

\* number of elements between the cursors of queue q
Occupancy(q) == USub(m_write[q], m_read[q])

\* history bookkeeping: a call on queue q in flight notes a full queue
NoteFull(w, r) ==
  [t \in Threads |->
     sawFull[t] \/ (pc[t] # "idle"
                     /\ USub(w[victim[t]], r[victim[t]]) = m_capacity[victim[t]])]

\* history bookkeeping: a call on queue q in flight notes an empty queue
NoteEmpty(w, r) ==
  [t \in Threads |->
     sawEmpty[t] \/ (pc[t] # "idle" /\ w[victim[t]] = r[victim[t]])]

\* (mutant) the full test compares with > instead of >=
IsFull_Greater(tl, hd, cap) == USub(tl, hd) > cap

\* tail - head >= m_capacity, on unsigned values
IsFull(tl, hd, cap) == USub(tl, hd) >= cap

\* (mutant) the empty test compares with < instead of ==
IsEmpty_Less(tl, hd) == tl < hd

\* tail == head
IsEmpty(tl, hd) == tl = hd

\* (mutant) the cursor itself is used as the index
SlotOf_NoWrap(cursor, cap) == cursor

\* cursor % m_capacity
SlotOf(cursor, cap) == cursor % cap

\* a thread's locals and result after return
Return(t, result) ==
  /\ pc'   = [pc   EXCEPT ![t] = "idle"]
  /\ ret'  = [ret  EXCEPT ![t] = result]
  /\ tail' = [tail EXCEPT ![t] = 0]
  /\ head' = [head EXCEPT ![t] = 0]
  /\ item' = [item EXCEPT ![t] = 0]

\* ------------------------------------------------------------------- Init
\* JobQueue(capacity): cursors 0, capacity value-initialised slots
NewQueues(caps) ==
  /\ m_capacity = caps
  /\ m_write    = [q \in Queues |-> 0]
  /\ m_read     = [q \in Queues |-> 0]
  /\ m_entries  = [q \in Queues |-> [i \in Slots(caps[q]) |-> ZeroInit]]

NewThreads ==
  /\ pc      = [t \in Threads |-> "idle"]
  /\ op      = [t \in Threads |-> "none"]
  /\ self    = [t \in Threads |-> 1]
  /\ victim  = [t \in Threads |-> 1]
  /\ item    = [t \in Threads |-> 0]
  /\ tail    = [t \in Threads |-> 0]
  /\ head    = [t \in Threads |-> 0]
  /\ out     = [t \in Threads |-> 0]
  /\ ret     = [t \in Threads |-> "none"]
  /\ claim   = [t \in Threads |-> 0]
  /\ sawFull = [t \in Threads |-> FALSE]
  /\ sawEmpty = [t \in Threads |-> FALSE]
  /\ didStore = [t \in Threads |-> FALSE]

\* the reference FIFO starts empty, its out variable as the caller's
NewRef ==
  /\ ref    = <<>>
  /\ refRet = "none"
  /\ refOut = 0

\* no twin run is under way, the draft queue's count is 0
NewDraft ==
  /\ mirror = "none"
  /\ m_count          = [q \in Queues |-> 0]
  /\ current_count    = [t \in Threads |-> 0]
  /\ next_count       = [t \in Threads |-> 0]
  /\ current_offset   = [t \in Threads |-> 0]
  /\ next_position    = [t \in Threads |-> 0]
  /\ claimed_position = [t \in Threads |-> 0]
  /\ hasClaimed       = [t \in Threads |-> FALSE]
  /\ wroteOut         = [t \in Threads |-> FALSE]
  /\ ahead            = [q \in Queues |-> 0]

\* uintptr_t / size_t values
AddrModulus == 2^AddrBits

\* the alignments the callers pass: powers of two
Alignments == {2^k : k \in 0..MaxAlignLog}

\* the sizes the callers pass: small ones, and the largest size_t values
Sizes == (0..MaxObj) \cup {AddrModulus - s : s \in 1..MaxObj}

\* x & y on uintptr_t, bit by bit
RECURSIVE BitAnd(_, _)
BitAnd(x, y) ==
  IF x = 0 \/ y = 0
    THEN 0
    ELSE (x % 2) * (y % 2) + 2 * BitAnd(x \div 2, y \div 2)

\* ~x on uintptr_t
BitNot(x) == (AddrModulus - 1) - x

\* (current_addr + object_alignment - 1) & ~(object_alignment - 1)
AlignedAddr(addr, alignment) ==
  BitAnd((addr + alignment + AddrModulus - 1) % AddrModulus,
         BitNot((alignment + AddrModulus - 1) % AddrModulus))

\* ArenaAllocator(total_size): the buffer starts at a maximally aligned address
NewArena(total_size) ==
  /\ m_start   = ArenaBase
  /\ m_end     = ArenaBase + total_size
  /\ m_current = ArenaBase
  /\ m_mutex   = 0
  /\ object_size      = [t \in Threads |-> 0]
  /\ object_alignment = [t \in Threads |-> 0]
  /\ current_addr     = [t \in Threads |-> 0]
  /\ aligned_addr     = [t \in Threads |-> 0]
  /\ returned         = [t \in Threads |-> 0]
  /\ chunks   = <<>>
  /\ numCalls = 0

\* no reset yet, the fresh arena is the arena itself
NewFresh ==
  /\ numResets = 0
  /\ fresh_current = ArenaBase
  /\ fresh_returned = 0

\* the values of the vector's elements
Ids == 1..MaxId

\* a storage slot that holds no object
NoObject == 0

\* SmallVector<T, n>(): m_size(0), m_capacity(N), m_on_stack(true); the
\* inline array holds no object yet
NewVector(n) ==
  /\ N = n
  /\ sv = [m_size |-> 0, m_capacity |-> n, m_on_stack |-> TRUE,
           m_storage |-> [i \in 0..(n - 1) |-> NoObject]]
  /\ sv_prev = sv
  /\ sv_op = [name |-> "none", arg |-> 0]
  /\ sv_ret = "none"
  /\ sv_out = 0
  /\ destroyed = <<>>
  /\ pushed = <<>>
  /\ popped = FALSE

\* the UniqueBuffer objects and the arrays they can own
Buffers == 1..NumBuffers
Blocks  == 1..MaxBlocks

\* m_buffer of an object that owns no array
Null == 0

\* no UniqueBuffer is constructed, no array is allocated
NewBuffers ==
  /\ ub = [b \in Buffers |-> [constructed |-> FALSE, m_size |-> 0, m_buffer |-> Null]]
  /\ heap = [k \in Blocks |-> [state |-> "unused", len |-> 0]]
  /\ ub_pc = "idle"
  /\ ub_op = [name |-> "none", dst |-> 0, src |-> 0, i |-> 0]
  /\ ub_prev = ub
  /\ ub_ret = "none"
  /\ ub_out = [block |-> Null, slot |-> 0]

\* no call has started
NewRetry ==
  /\ iterations   = [t \in Threads |-> 0]
  /\ claimsAtCall = [t \in Threads |-> 0]

\* the objects a scenario does not use, as constructed
NewExtra ==
  /\ NewFresh
  /\ NewVector(1)
  /\ NewBuffers
  /\ NewRetry

\* what the queue scenarios start with besides the queues: an unused arena
NewOther ==
  /\ NewDraft
  /\ NewArena(0)
  /\ NewExtra

\* the queue the concurrent scenarios work on
Q1 == 1

\* all queues constructed with the same capacity, as the tests do
Init ==
  /\ \E c \in 0..MaxCap : NewQueues([q \in Queues |-> c])
  /\ NewThreads
  /\ nextVal = 1
  /\ wlog = [q \in Queues |-> <<>>]
  /\ rlog = [q \in Queues |-> <<>>]
  /\ NewRef
  /\ NewOther

\* ------------------------------------------------------------------- push
\* bool push(T item): invocation
PushCall(t, q, v) ==
  /\ pc[t] = "idle"
  /\ pc'      = [pc      EXCEPT ![t] = "push_tail"]
  /\ op'      = [op      EXCEPT ![t] = "push"]
  /\ self'    = [self    EXCEPT ![t] = q]
  /\ victim'  = [victim  EXCEPT ![t] = q]
  /\ item'    = [item    EXCEPT ![t] = v]
  /\ ret'     = [ret     EXCEPT ![t] = "run"]
  /\ nextVal' = IF v >= nextVal THEN v + 1 ELSE nextVal
  /\ sawFull' = [sawFull EXCEPT ![t] = (Occupancy(q) = m_capacity[q])]
  /\ sawEmpty' = [sawEmpty EXCEPT ![t] = (m_write[q] = m_read[q])]
  /\ didStore' = [didStore EXCEPT ![t] = FALSE]
  /\ UNCHANGED <<queueVars, tail, head, out, wlog, rlog, claim>>

\* tail = m_write.load(relaxed)
PushLoadTail(t) ==
  /\ pc[t] = "push_tail"
  /\ tail' = [tail EXCEPT ![t] = m_write[self[t]]]
  /\ pc'   = [pc   EXCEPT ![t] = "push_head"]
  /\ UNCHANGED <<queueVars, op, self, victim, item, head, out, ret, nextVal, histVars>>

\* head = m_read.load(acquire); if (tail - head >= m_capacity) return false;
PushLoadHead(t) ==
  /\ pc[t] = "push_head"
  /\ LET h == m_read[self[t]] IN
       IF IsFull(tail[t], h, m_capacity[self[t]])
         THEN Return(t, "false")
         ELSE /\ head' = [head EXCEPT ![t] = h]
              /\ pc'   = [pc   EXCEPT ![t] = "push_fill"]
              /\ UNCHANGED <<tail, ret, item>>
  /\ UNCHANGED <<queueVars, op, self, victim, out, nextVal, histVars>>

\* m_entries[tail % m_capacity] = item;
PushFill(t) ==
  /\ pc[t] = "push_fill"
  /\ m_entries' = [m_entries EXCEPT ![self[t]][SlotOf(tail[t], m_capacity[self[t]])] = item[t]]
  /\ pc' = [pc EXCEPT ![t] = "push_cas"]
  /\ didStore' = [didStore EXCEPT ![t] = TRUE]
  /\ UNCHANGED <<m_capacity, m_write, m_read, op, self, victim, item, tail, head,
                 out, ret, nextVal, wlog, rlog, claim, sawFull, sawEmpty, refVars, otherVars>>

\* m_write.compare_exchange_weak(tail, tail + 1) succeeds: return true
PushCasOk(t) ==
  /\ pc[t] = "push_cas"
  /\ m_write[self[t]] = tail[t]
  /\ m_write' = [m_write EXCEPT ![self[t]] = UInc(tail[t])]
  /\ wlog' = [wlog EXCEPT ![self[t]] =
                Append(@, [item |-> item[t], slot |-> SlotOf(tail[t], m_capacity[self[t]])])]
  /\ sawFull' = NoteFull(m_write', m_read)
  /\ sawEmpty' = NoteEmpty(m_write', m_read)
  /\ Return(t, "true")
  /\ UNCHANGED <<m_capacity, m_read, m_entries, op, self, victim, out,
                 nextVal, rlog, claim, didStore, refVars, otherVars>>

\* compare_exchange_weak fails (the cursor moved, or spuriously): tail is
\* reloaded by the exchange and the loop starts over
PushCasFail(t) ==
  /\ pc[t] = "push_cas"
  /\ tail' = [tail EXCEPT ![t] = m_write[self[t]]]
  /\ pc'   = [pc   EXCEPT ![t] = "push_tail"]
  /\ UNCHANGED <<queueVars, op, self, victim, item, head, out, ret, nextVal, histVars>>

Push(t) ==
  \/ PushLoadTail(t)
  \/ PushLoadHead(t)
  \/ PushFill(t)
  \/ PushCasOk(t)
  \/ PushCasFail(t)

\* -------------------------------------------------------------------- pop
\* bool pop(T& out): invocation
PopCall(t, q) ==
  /\ pc[t] = "idle"
  /\ pc'      = [pc      EXCEPT ![t] = "pop_head"]
  /\ op'      = [op      EXCEPT ![t] = "pop"]
  /\ self'    = [self    EXCEPT ![t] = q]
  /\ victim'  = [victim  EXCEPT ![t] = q]
  /\ ret'     = [ret     EXCEPT ![t] = "run"]
  /\ sawFull' = [sawFull EXCEPT ![t] = (Occupancy(q) = m_capacity[q])]
  /\ sawEmpty' = [sawEmpty EXCEPT ![t] = (m_write[q] = m_read[q])]
  /\ didStore' = [didStore EXCEPT ![t] = FALSE]
  /\ UNCHANGED <<queueVars, item, tail, head, out, nextVal, wlog, rlog, claim>>

\* head = m_read.load(relaxed)
PopLoadHead(t) ==
  /\ pc[t] = "pop_head"
  /\ head' = [head EXCEPT ![t] = m_read[self[t]]]
  /\ pc'   = [pc   EXCEPT ![t] = "pop_tail"]
  /\ UNCHANGED <<queueVars, op, self, victim, item, tail, out, ret, nextVal, histVars>>

\* tail = m_write.load(acquire); if (tail == head) return false;
PopLoadTail(t) ==
  /\ pc[t] = "pop_tail"
  /\ LET w == m_write[self[t]] IN
       IF IsEmpty(w, head[t])
         THEN Return(t, "false")
         ELSE /\ tail' = [tail EXCEPT ![t] = w]
              /\ pc'   = [pc   EXCEPT ![t] = "pop_cas"]
              /\ UNCHANGED <<head, ret, item>>
  /\ UNCHANGED <<queueVars, op, self, victim, out, nextVal, histVars>>

\* (mutant) the exchange stores head + 1 without comparing m_read with head
PopCasOk_NoCompare(t) ==
  /\ pc[t] = "pop_cas"
  /\ m_read' = [m_read EXCEPT ![self[t]] = UInc(head[t])]
  /\ rlog'   = [rlog   EXCEPT ![self[t]] = Append(@, NoVal)]
  /\ claim'  = [claim  EXCEPT ![t] = Len(rlog[self[t]]) + 1]
  /\ sawFull' = NoteFull(m_write, m_read')
  /\ sawEmpty' = NoteEmpty(m_write, m_read')
  /\ pc'     = [pc     EXCEPT ![t] = "pop_move"]
  /\ UNCHANGED <<m_capacity, m_write, m_entries, op, self, victim, item, tail,
                 head, out, ret, nextVal, wlog, didStore, refVars, otherVars>>

\* m_read.compare_exchange_weak(head, head + 1) succeeds: the slot is claimed
PopCasOk(t) ==
  /\ pc[t] = "pop_cas"
  /\ m_read[self[t]] = head[t]
  /\ m_read' = [m_read EXCEPT ![self[t]] = UInc(head[t])]
  /\ rlog'   = [rlog   EXCEPT ![self[t]] = Append(@, NoVal)]
  /\ claim'  = [claim  EXCEPT ![t] = Len(rlog[self[t]]) + 1]
  /\ sawFull' = NoteFull(m_write, m_read')
  /\ sawEmpty' = NoteEmpty(m_write, m_read')
  /\ pc'     = [pc     EXCEPT ![t] = "pop_move"]
  /\ UNCHANGED <<m_capacity, m_write, m_entries, op, self, victim, item, tail,
                 head, out, ret, nextVal, wlog, didStore, refVars, otherVars>>

\* (mutant) a lost compare-and-swap gives up instead of retrying
PopCasFail_GiveUp(t) ==
  /\ pc[t] = "pop_cas"
  /\ Return(t, "false")
  /\ UNCHANGED <<queueVars, op, self, victim, out, nextVal, histVars>>

\* compare_exchange_weak fails (the cursor moved, or spuriously): retry
PopCasFail(t) ==
  /\ pc[t] = "pop_cas"
  /\ head' = [head EXCEPT ![t] = m_read[self[t]]]
  /\ pc'   = [pc   EXCEPT ![t] = "pop_head"]
  /\ UNCHANGED <<queueVars, op, self, victim, item, tail, out, ret, nextVal, histVars>>

\* (mutant) the value is moved out of the slot after the claimed one
PopMove_NextSlot(t) ==
  /\ pc[t] = "pop_move"
  /\ LET v == m_entries[self[t]][SlotOf(head[t] + 1, m_capacity[self[t]])] IN
       /\ out'  = [out  EXCEPT ![t] = v]
       /\ rlog' = [rlog EXCEPT ![self[t]][claim[t]] = v]
  /\ claim' = [claim EXCEPT ![t] = 0]
  /\ Return(t, "true")
  /\ UNCHANGED <<queueVars, op, self, victim, nextVal, wlog, sawFull, sawEmpty, didStore, refVars, otherVars>>

\* out = std::move(m_entries[head % m_capacity]); return true;
PopMove(t) ==
  /\ pc[t] = "pop_move"
  /\ m_capacity[self[t]] # 0
  /\ LET v == m_entries[self[t]][SlotOf(head[t], m_capacity[self[t]])] IN
       /\ out'  = [out  EXCEPT ![t] = v]
       /\ rlog' = [rlog EXCEPT ![self[t]][claim[t]] = v]
  /\ claim' = [claim EXCEPT ![t] = 0]
  /\ Return(t, "true")
  /\ UNCHANGED <<queueVars, op, self, victim, nextVal, wlog, sawFull, sawEmpty, didStore, refVars, otherVars>>

Pop(t) ==
  \/ PopLoadHead(t)
  \/ PopLoadTail(t)
  \/ PopCasOk(t)
  \/ PopCasFail(t)
  \/ PopMove(t)

\* ------------------------------------------------------------------ steal
\* bool steal(JobQueue<T>& victim, T& out): invocation on thief q
StealCall(t, q, vq) ==
  /\ pc[t] = "idle"
  /\ pc'      = [pc      EXCEPT ![t] = "steal_head"]
  /\ op'      = [op      EXCEPT ![t] = "steal"]
  /\ self'    = [self    EXCEPT ![t] = q]
  /\ victim'  = [victim  EXCEPT ![t] = vq]
  /\ ret'     = [ret     EXCEPT ![t] = "run"]
  /\ sawFull' = [sawFull EXCEPT ![t] = (Occupancy(vq) = m_capacity[vq])]
  /\ sawEmpty' = [sawEmpty EXCEPT ![t] = (m_write[vq] = m_read[vq])]
  /\ didStore' = [didStore EXCEPT ![t] = FALSE]
  /\ UNCHANGED <<queueVars, item, tail, head, out, nextVal, wlog, rlog, claim>>

\* head = victim.m_read.load(relaxed)
StealLoadHead(t) ==
  /\ pc[t] = "steal_head"
  /\ head' = [head EXCEPT ![t] = m_read[victim[t]]]
  /\ pc'   = [pc   EXCEPT ![t] = "steal_tail"]
  /\ UNCHANGED <<queueVars, op, self, victim, item, tail, out, ret, nextVal, histVars>>

\* tail = victim.m_write.load(acquire); if (tail == head) return false;
StealLoadTail(t) ==
  /\ pc[t] = "steal_tail"
  /\ LET w == m_write[victim[t]] IN
       IF IsEmpty(w, head[t])
         THEN Return(t, "false")
         ELSE /\ tail' = [tail EXCEPT ![t] = w]
              /\ pc'   = [pc   EXCEPT ![t] = "steal_cas"]
              /\ UNCHANGED <<head, ret, item>>
  /\ UNCHANGED <<queueVars, op, self, victim, out, nextVal, histVars>>

\* (mutant) steal advances the thief's read cursor instead of the victim's
StealCasOk_OnThief(t) ==
  /\ pc[t] = "steal_cas"
  /\ m_read[victim[t]] = head[t]
  /\ m_read' = [m_read EXCEPT ![self[t]] = UInc(head[t])]
  /\ rlog'   = [rlog   EXCEPT ![victim[t]] = Append(@, NoVal)]
  /\ claim'  = [claim  EXCEPT ![t] = Len(rlog[victim[t]]) + 1]
  /\ sawFull' = NoteFull(m_write, m_read')
  /\ sawEmpty' = NoteEmpty(m_write, m_read')
  /\ pc'     = [pc     EXCEPT ![t] = "steal_move"]
  /\ UNCHANGED <<m_capacity, m_write, m_entries, op, self, victim, item, tail,
                 head, out, ret, nextVal, wlog, didStore, refVars, otherVars>>

\* victim.m_read.compare_exchange_weak(head, head + 1) succeeds
StealCasOk(t) ==
  /\ pc[t] = "steal_cas"
  /\ m_read[victim[t]] = head[t]
  /\ m_read' = [m_read EXCEPT ![victim[t]] = UInc(head[t])]
  /\ rlog'   = [rlog   EXCEPT ![victim[t]] = Append(@, NoVal)]
  /\ claim'  = [claim  EXCEPT ![t] = Len(rlog[victim[t]]) + 1]
  /\ sawFull' = NoteFull(m_write, m_read')
  /\ sawEmpty' = NoteEmpty(m_write, m_read')
  /\ pc'     = [pc     EXCEPT ![t] = "steal_move"]
  /\ UNCHANGED <<m_capacity, m_write, m_entries, op, self, victim, item, tail,
                 head, out, ret, nextVal, wlog, didStore, refVars, otherVars>>

\* compare_exchange_weak fails (the cursor moved, or spuriously): retry
StealCasFail(t) ==
  /\ pc[t] = "steal_cas"
  /\ head' = [head EXCEPT ![t] = m_read[victim[t]]]
  /\ pc'   = [pc   EXCEPT ![t] = "steal_head"]
  /\ UNCHANGED <<queueVars, op, self, victim, item, tail, out, ret, nextVal, histVars>>

\* (mutant) steal returns true without assigning out
StealMove_KeepOut(t) ==
  /\ pc[t] = "steal_move"
  /\ rlog' = [rlog EXCEPT ![victim[t]][claim[t]] =
                m_entries[victim[t]][SlotOf(head[t], m_capacity[victim[t]])]]
  /\ claim' = [claim EXCEPT ![t] = 0]
  /\ Return(t, "true")
  /\ UNCHANGED <<queueVars, op, self, victim, out, nextVal, wlog, sawFull, sawEmpty,
                 didStore, refVars, otherVars>>

\* out = std::move(victim.m_entries[head % victim.m_capacity]); return true;
StealMove(t) ==
  /\ pc[t] = "steal_move"
  /\ m_capacity[victim[t]] # 0
  /\ LET v == m_entries[victim[t]][SlotOf(head[t], m_capacity[victim[t]])] IN
       /\ out'  = [out  EXCEPT ![t] = v]
       /\ rlog' = [rlog EXCEPT ![victim[t]][claim[t]] = v]
  /\ claim' = [claim EXCEPT ![t] = 0]
  /\ Return(t, "true")
  /\ UNCHANGED <<queueVars, op, self, victim, nextVal, wlog, sawFull, sawEmpty, didStore, refVars, otherVars>>

Steal(t) ==
  \/ StealLoadHead(t)
  \/ StealLoadTail(t)
  \/ StealCasOk(t)
  \/ StealCasFail(t)
  \/ StealMove(t)

\* ------------------------------------------------- the concurrent program
\* any thread calls push (with a fresh token), pop or self-steal on queue Q1
Next ==
  \E t \in Threads :
    \/ nextVal <= MaxVal /\ PushCall(t, Q1, nextVal) /\ UNCHANGED <<refVars, otherVars>>
    \/ PopCall(t, Q1) /\ UNCHANGED <<refVars, otherVars>>
    \/ StealCall(t, Q1, Q1) /\ UNCHANGED <<refVars, otherVars>>
    \/ Push(t)
    \/ Pop(t)
    \/ Steal(t)

Spec == Init /\ [][Next]_vars

\* ------------------------------------------- pre-filled queues, drain only
\* token k of queue q after q was filled with n tokens by sequential pushes
Token(q, k) == (q - 1) * MaxCap + k

Prefilled(c, fill) ==
  /\ m_capacity = [q \in Queues |-> c]
  /\ m_write    = fill
  /\ m_read     = [q \in Queues |-> 0]
  /\ m_entries  = [q \in Queues |->
                     [i \in Slots(c) |-> IF i < fill[q] THEN Token(q, i + 1) ELSE ZeroInit]]
  /\ wlog       = [q \in Queues |->
                     [k \in 1..fill[q] |-> [item |-> Token(q, k), slot |-> SlotOf(k - 1, c)]]]
  /\ rlog       = [q \in Queues |-> <<>>]

InitDrain ==
  /\ \E c \in 1..MaxCap : \E fill \in [Queues -> 0..c] : Prefilled(c, fill)
  /\ NewThreads
  /\ nextVal = NumQueues * MaxCap + 1
  /\ NewRef
  /\ NewOther

\* worker t owns queue Own(t), as thread worker_id owns queues[worker_id]
Own(t) == ((t - 1) % NumQueues) + 1

\* owners pop their own queue, workers steal from the other queues (the thief
\* being their own queue); nobody pushes
NextDrain ==
  \E t \in Threads :
    \/ PopCall(t, Own(t)) /\ UNCHANGED <<refVars, otherVars>>
    \/ \E vq \in Queues \ {Own(t)} : StealCall(t, Own(t), vq) /\ UNCHANGED <<refVars, otherVars>>
    \/ Pop(t)
    \/ Steal(t)

SpecDrain == InitDrain /\ [][NextDrain]_vars

\* --------------------------------------- one producer and one consumer
Producer == 1
Consumer == 2

\* the producer retries push(i) until it succeeds, then goes on to i + 1;
\* the consumer retries pop
NextSPSC ==
  \/ /\ Len(wlog[Q1]) < MaxVal
     /\ PushCall(Producer, Q1, Len(wlog[Q1]) + 1)
     /\ UNCHANGED <<refVars, otherVars>>
  \/ Push(Producer)
  \/ PopCall(Consumer, Q1) /\ UNCHANGED <<refVars, otherVars>>
  \/ Pop(Consumer)

SpecSPSC == Init /\ [][NextSPSC]_vars

\* ------------------------------------------------------ sequential calls
Solo == 1

\* reference bounded FIFO of capacity cap
RefPush(v, cap) ==
  IF Len(ref) >= cap
    THEN /\ refRet' = "false"
         /\ UNCHANGED <<ref, refOut>>
    ELSE /\ refRet' = "true"
         /\ ref' = Append(ref, v)
         /\ UNCHANGED refOut

RefPop ==
  IF ref = <<>>
    THEN /\ refRet' = "false"
         /\ UNCHANGED <<ref, refOut>>
    ELSE /\ refRet' = "true"
         /\ refOut' = Head(ref)
         /\ ref' = Tail(ref)

\* one thread calls push, pop and self-steal, one call after the other
NextSeq ==
  \/ /\ nextVal <= MaxVal /\ PushCall(Solo, Q1, nextVal)
     /\ RefPush(nextVal, m_capacity[Q1]) /\ UNCHANGED otherVars
  \/ PopCall(Solo, Q1) /\ RefPop /\ UNCHANGED otherVars
  \/ StealCall(Solo, Q1, Q1) /\ RefPop /\ UNCHANGED otherVars
  \/ Push(Solo)
  \/ Pop(Solo)
  \/ Steal(Solo)

SpecSeq == Init /\ [][NextSeq]_vars

\* ------------------------------------------------------- moved-from queues
\* what a move does to the two queues: the destination takes the storage,
\* the capacity and the cursor values; the source keeps its cursors, its
\* storage becomes the empty buffer and its capacity 0
MoveFrom(dst, src) ==
  /\ m_entries'  = [m_entries  EXCEPT ![dst] = m_entries[src],
                                      ![src] = [i \in Slots(0) |-> ZeroInit]]
  /\ m_capacity' = [m_capacity EXCEPT ![dst] = m_capacity[src], ![src] = 0]
  /\ m_read'     = [m_read     EXCEPT ![dst] = m_read[src]]
  /\ m_write'    = [m_write    EXCEPT ![dst] = m_write[src]]
  /\ wlog'       = [wlog EXCEPT ![dst] = wlog[src], ![src] = <<>>]
  /\ rlog'       = [rlog EXCEPT ![dst] = rlog[src], ![src] = <<>>]
  /\ UNCHANGED <<pc, op, self, victim, item, tail, head, out, ret, nextVal,
                 claim, sawFull, sawEmpty, didStore, refVars, otherVars>>

\* JobQueue(JobQueue&& src): the new object takes the name dst; no call is
\* running on either queue
MoveConstruct(dst, src) ==
  /\ \A t \in Threads : pc[t] = "idle"
  /\ dst # src
  /\ MoveFrom(dst, src)

\* JobQueue& operator=(JobQueue&& src): nothing happens if this == &src
MoveAssign(dst, src) ==
  /\ \A t \in Threads : pc[t] = "idle"
  /\ IF dst # src THEN MoveFrom(dst, src) ELSE UNCHANGED vars

\* head % m_capacity with m_capacity = 0, after the read cursor was advanced:
\* the division is undefined; it traps, or it yields some index, which
\* UniqueBuffer::operator[] of the size-0 buffer answers with std::out_of_range
MoveOutFault(t) ==
  /\ pc[t] \in {"pop_move", "steal_move"}
  /\ m_capacity[victim[t]] = 0
  /\ \/ /\ pc'  = [pc  EXCEPT ![t] = "fault"]
        /\ ret' = [ret EXCEPT ![t] = "SIGFPE"]
        /\ UNCHANGED <<tail, head, item>>
     \/ Return(t, "out_of_range")
  /\ UNCHANGED <<queueVars, op, self, victim, out, nextVal, histVars>>

\* queues constructed with a positive capacity: capacity 0 then marks a
\* moved-from queue
InitMoved ==
  /\ \E c \in 1..MaxCap : NewQueues([q \in Queues |-> c])
  /\ NewThreads
  /\ nextVal = 1
  /\ wlog = [q \in Queues |-> <<>>]
  /\ rlog = [q \in Queues |-> <<>>]
  /\ NewRef
  /\ NewOther

\* one thread calls push, pop and steal on any queue and, between calls,
\* moves one queue into another
NextMoved ==
  \/ \E q \in Queues :
       /\ nextVal <= MaxVal /\ PushCall(Solo, q, nextVal)
       /\ UNCHANGED <<refVars, otherVars>>
  \/ \E q \in Queues : PopCall(Solo, q) /\ UNCHANGED <<refVars, otherVars>>
  \/ \E q, vq \in Queues : StealCall(Solo, q, vq) /\ UNCHANGED <<refVars, otherVars>>
  \/ Push(Solo)
  \/ Pop(Solo)
  \/ Steal(Solo)
  \/ MoveOutFault(Solo)
  \/ \E dst, src \in Queues : MoveConstruct(dst, src)
  \/ \E dst, src \in Queues : MoveAssign(dst, src)

SpecMoved == InitMoved /\ [][NextMoved]_vars

\* ------------------------------------------- pop and steal, side by side
\* the caller of pop on Q1 and the caller of steal on the twin queue
Owner == 1
Thief == 2

\* the twin of Q1: constructed alike, it receives the same calls
Q2 == Q1 + 1

\* every call on Q1 is repeated on Q2 once it has returned, with steal (by any
\* thief, Q2 itself included) in place of pop; one call runs at a time
NextTwin ==
  \/ /\ mirror = "none" /\ pc[Thief] = "idle" /\ nextVal <= MaxVal
     /\ PushCall(Owner, Q1, nextVal)
     /\ mirror' = "push"
     /\ UNCHANGED <<refVars, draftVars, arenaVars, extraVars>>
  \/ /\ mirror = "none" /\ pc[Thief] = "idle"
     /\ PopCall(Owner, Q1)
     /\ mirror' = "take"
     /\ UNCHANGED <<refVars, draftVars, arenaVars, extraVars>>
  \/ /\ mirror = "push" /\ pc[Owner] = "idle"
     /\ PushCall(Thief, Q2, nextVal - 1)
     /\ mirror' = "none"
     /\ UNCHANGED <<refVars, draftVars, arenaVars, extraVars>>
  \/ /\ mirror = "take" /\ pc[Owner] = "idle"
     /\ \E q \in Queues : StealCall(Thief, q, Q2)
     /\ mirror' = "none"
     /\ UNCHANGED <<refVars, draftVars, arenaVars, extraVars>>
  \/ Push(Owner)
  \/ Push(Thief)
  \/ Pop(Owner)
  \/ Steal(Thief)

SpecTwin == Init /\ [][NextTwin]_vars

\* ------------------------------------------ one queue per worker, stealing
\* worker t pushes on and pops from its own queue and steals from the others
NextWork ==
  \E t \in Threads :
    \/ /\ nextVal <= MaxVal /\ PushCall(t, Own(t), nextVal)
       /\ UNCHANGED <<refVars, otherVars>>
    \/ PopCall(t, Own(t)) /\ UNCHANGED <<refVars, otherVars>>
    \/ \E vq \in Queues \ {Own(t)} :
         StealCall(t, Own(t), vq) /\ UNCHANGED <<refVars, otherVars>>
    \/ Push(t)
    \/ Pop(t)
    \/ Steal(t)

SpecWork == Init /\ [][NextWork]_vars

\* ---------------------------------- workers with queues of their own size
\* every queue constructed with a capacity of its own
InitSized ==
  /\ \E caps \in [Queues -> 0..MaxCap] : NewQueues(caps)
  /\ NewThreads
  /\ nextVal = 1
  /\ wlog = [q \in Queues |-> <<>>]
  /\ rlog = [q \in Queues |-> <<>>]
  /\ NewRef
  /\ NewOther

SpecSized == InitSized /\ [][NextWork]_vars

\* ------------------------------------------- the count-based JobQueue draft
\* the variables the cursor-based queue's calls use and the draft's do not
nonDraftVars == <<tail, head, claim, sawFull, sawEmpty, didStore, refVars, mirror,
                  arenaVars, extraVars>>

\* the cursor try_claim_entry advances: m_write for push, m_read of the
\* target queue for pop and steal
Position(t) == IF op[t] = "push" THEN m_write[victim[t]] ELSE m_read[victim[t]]

\* next_position = current_offset + 1; if (next_position == m_capacity) next_position = 0;
\* m_capacity is the caller's own (this->m_capacity), also inside steal
NextPosition(offset, cap) == IF offset + 1 = cap THEN 0 ELSE offset + 1

\* the count a call cannot proceed on: m_capacity for push, 0 for pop / steal
Boundary(t) == IF op[t] = "push" THEN m_capacity[self[t]] ELSE 0

\* (mutant) pop and steal count up as push does
NextCount_Up(t, count) == count + 1

\* next_count = current_count + 1 (push), current_count - 1 (pop, steal)
NextCount(t, count) == IF op[t] = "push" THEN count + 1 ELSE count - 1

\* a thread's locals and result after return; a refused push keeps its item
\* for the retry
DraftReturn(t, result) ==
  /\ pc'   = [pc   EXCEPT ![t] = "idle"]
  /\ ret'  = [ret  EXCEPT ![t] = result]
  /\ item' = [item EXCEPT ![t] = IF op[t] = "push" /\ result = "false" THEN @ ELSE 0]
  /\ current_count'    = [current_count    EXCEPT ![t] = 0]
  /\ next_count'       = [next_count       EXCEPT ![t] = 0]
  /\ current_offset'   = [current_offset   EXCEPT ![t] = 0]
  /\ next_position'    = [next_position    EXCEPT ![t] = 0]
  /\ claimed_position' = [claimed_position EXCEPT ![t] = 0]

\* invocation of push(item) on q, pop(item) on q, or thief q's steal(queue vq, item)
DraftCall(t, o, q, vq, v) ==
  /\ pc[t] = "idle"
  /\ pc'      = [pc      EXCEPT ![t] = "d_count"]
  /\ op'      = [op      EXCEPT ![t] = o]
  /\ self'    = [self    EXCEPT ![t] = q]
  /\ victim'  = [victim  EXCEPT ![t] = vq]
  /\ item'    = [item    EXCEPT ![t] = v]
  /\ ret'     = [ret     EXCEPT ![t] = "run"]
  /\ nextVal' = IF v >= nextVal THEN v + 1 ELSE nextVal
  /\ hasClaimed' = [hasClaimed EXCEPT ![t] = FALSE]
  /\ wroteOut'   = [wroteOut   EXCEPT ![t] = FALSE]
  /\ UNCHANGED <<queueVars, m_count, out, wlog, rlog, current_count, next_count,
                 current_offset, next_position, claimed_position, ahead,
                 nonDraftVars>>

DraftPushCall(t, q, v) == DraftCall(t, "push", q, q, v)
DraftPopCall(t, q) == DraftCall(t, "pop", q, q, 0)
DraftStealCall(t, q, vq) == DraftCall(t, "steal", q, vq, 0)

\* current_count = m_count.load(); if (current_count == m_capacity [0 for
\* pop, steal]) return false; next_count = current_count + 1 [- 1];
DraftLoadCount(t) ==
  /\ pc[t] = "d_count"
  /\ LET c == m_count[victim[t]] IN
       IF c = Boundary(t)
         THEN DraftReturn(t, "false")
         ELSE /\ current_count' = [current_count EXCEPT ![t] = c]
              /\ next_count'    = [next_count    EXCEPT ![t] = NextCount(t, c)]
              /\ pc'            = [pc            EXCEPT ![t] = "d_claim_load"]
              /\ UNCHANGED <<ret, item, current_offset, next_position, claimed_position>>
  /\ UNCHANGED <<queueVars, m_count, op, self, victim, out, nextVal, wlog, rlog,
                 hasClaimed, ahead, wroteOut, nonDraftVars>>

\* try_claim_entry: current_offset = position_to_advance.load(); next_position = ...
TryClaimLoad(t) ==
  /\ pc[t] = "d_claim_load"
  /\ current_offset' = [current_offset EXCEPT ![t] = Position(t)]
  /\ next_position'  = [next_position  EXCEPT ![t] =
                          NextPosition(Position(t), m_capacity[self[t]])]
  /\ pc' = [pc EXCEPT ![t] = "d_claim_cas"]
  /\ UNCHANGED <<queueVars, m_count, op, self, victim, item, out, ret, nextVal,
                 wlog, rlog, current_count, next_count, claimed_position,
                 hasClaimed, ahead, wroteOut, nonDraftVars>>

\* position_to_advance.compare_exchange_strong(current_offset, next_position)
\* succeeds; claimed_position = current_offset; return true;
TryClaimCasOk(t) ==
  /\ pc[t] = "d_claim_cas"
  /\ Position(t) = current_offset[t]
  /\ IF op[t] = "push"
       THEN /\ m_write' = [m_write EXCEPT ![victim[t]] = next_position[t]]
            /\ UNCHANGED m_read
       ELSE /\ m_read' = [m_read EXCEPT ![victim[t]] = next_position[t]]
            /\ UNCHANGED m_write
  /\ claimed_position' = [claimed_position EXCEPT ![t] = current_offset[t]]
  /\ hasClaimed' = [hasClaimed EXCEPT ![t] = TRUE]
  /\ ahead' = [ahead EXCEPT ![victim[t]] = IF op[t] = "push" THEN @ + 1 ELSE @ - 1]
  /\ pc' = [pc EXCEPT ![t] = IF op[t] = "push" THEN "d_store" ELSE "d_move"]
  /\ UNCHANGED <<m_capacity, m_entries, m_count, op, self, victim, item, out, ret,
                 nextVal, wlog, rlog, current_count, next_count, current_offset,
                 next_position, wroteOut, nonDraftVars>>

\* the compare_exchange_strong fails: the cursor has moved; the loop body
\* loads it again
TryClaimCasFail(t) ==
  /\ pc[t] = "d_claim_cas"
  /\ Position(t) # current_offset[t]
  /\ current_offset' = [current_offset EXCEPT ![t] = Position(t)]
  /\ pc' = [pc EXCEPT ![t] = "d_claim_load"]
  /\ UNCHANGED <<queueVars, m_count, op, self, victim, item, out, ret, nextVal,
                 wlog, rlog, current_count, next_count, next_position,
                 claimed_position, hasClaimed, ahead, wroteOut, nonDraftVars>>

\* m_entries[write_index] = std::move(T(item));
DraftStore(t) ==
  /\ pc[t] = "d_store"
  /\ claimed_position[t] \in DOMAIN m_entries[victim[t]]
  /\ m_entries' = [m_entries EXCEPT ![victim[t]][claimed_position[t]] = item[t]]
  /\ pc' = [pc EXCEPT ![t] = "d_count_cas"]
  /\ UNCHANGED <<m_capacity, m_write, m_read, m_count, op, self, victim, item, out,
                 ret, nextVal, wlog, rlog, current_count, next_count,
                 current_offset, next_position, claimed_position, hasClaimed, ahead,
                 wroteOut, nonDraftVars>>

\* item = std::move(m_entries[read_index]);
DraftMove(t) ==
  /\ pc[t] = "d_move"
  /\ claimed_position[t] \in DOMAIN m_entries[victim[t]]
  /\ out' = [out EXCEPT ![t] = m_entries[victim[t]][claimed_position[t]]]
  /\ wroteOut' = [wroteOut EXCEPT ![t] = TRUE]
  /\ pc' = [pc EXCEPT ![t] = "d_count_cas"]
  /\ UNCHANGED <<queueVars, m_count, op, self, victim, item, ret, nextVal, wlog,
                 rlog, current_count, next_count, current_offset, next_position,
                 claimed_position, hasClaimed, ahead, nonDraftVars>>

\* m_count.compare_exchange_strong(current_count, next_count) succeeds: return true
CountCasOk(t) ==
  /\ pc[t] = "d_count_cas"
  /\ m_count[victim[t]] = current_count[t]
  /\ m_count' = [m_count EXCEPT ![victim[t]] = next_count[t]]
  /\ IF op[t] = "push"
       THEN /\ wlog' = [wlog EXCEPT ![victim[t]] =
                          Append(@, [item |-> item[t], slot |-> claimed_position[t]])]
            /\ UNCHANGED rlog
       ELSE /\ rlog' = [rlog EXCEPT ![victim[t]] = Append(@, out[t])]
            /\ UNCHANGED wlog
  /\ DraftReturn(t, "true")
  /\ UNCHANGED <<queueVars, op, self, victim, out, nextVal, hasClaimed, ahead, wroteOut,
                 nonDraftVars>>

\* the compare_exchange_strong on m_count fails: the count has changed
CountCasFail(t) ==
  /\ pc[t] = "d_count_cas"
  /\ m_count[victim[t]] # current_count[t]
  /\ current_count' = [current_count EXCEPT ![t] = m_count[victim[t]]]
  /\ pc' = [pc EXCEPT ![t] = "d_count_reload"]
  /\ UNCHANGED <<queueVars, m_count, op, self, victim, item, out, ret, nextVal,
                 wlog, rlog, next_count, current_offset, next_position,
                 claimed_position, hasClaimed, ahead, wroteOut, nonDraftVars>>

\* loop body: current_count = m_count.load(); if (current_count ==
\* m_capacity [0]) return false; next_count = current_count + 1 [- 1];
CountReload(t) ==
  /\ pc[t] = "d_count_reload"
  /\ LET c == m_count[victim[t]] IN
       IF c = Boundary(t)
         THEN DraftReturn(t, "false")
         ELSE /\ current_count' = [current_count EXCEPT ![t] = c]
              /\ next_count'    = [next_count    EXCEPT ![t] = NextCount(t, c)]
              /\ pc'            = [pc            EXCEPT ![t] = "d_count_cas"]
              /\ UNCHANGED <<ret, item, current_offset, next_position, claimed_position>>
  /\ UNCHANGED <<queueVars, m_count, op, self, victim, out, nextVal, wlog, rlog,
                 hasClaimed, ahead, wroteOut, nonDraftVars>>

DraftStep(t) ==
  \/ DraftLoadCount(t)
  \/ TryClaimLoad(t)
  \/ TryClaimCasOk(t)
  \/ TryClaimCasFail(t)
  \/ DraftStore(t)
  \/ DraftMove(t)
  \/ CountCasOk(t)
  \/ CountCasFail(t)
  \/ CountReload(t)

\* a producer whose push returned false calls push again with the same token
Retrying(t) == pc[t] = "idle" /\ op[t] = "push" /\ ret[t] = "false"

\* producers push fresh tokens on Q1 and retry refused pushes; consumers call
\* pop or self-steal on Q1
NextDraft ==
  \E t \in Threads :
    \/ ~Retrying(t) /\ nextVal <= MaxVal /\ DraftPushCall(t, Q1, nextVal)
    \/ Retrying(t) /\ DraftPushCall(t, Q1, item[t])
    \/ ~Retrying(t) /\ DraftPopCall(t, Q1)
    \/ ~Retrying(t) /\ DraftStealCall(t, Q1, Q1)
    \/ DraftStep(t)

SpecDraft == Init /\ [][NextDraft]_vars

\* ------------------------------------------ the mutex-guarded ArenaAllocator
\* the variables the arena's calls leave alone
offArenaVars == <<queueVars, self, victim, item, tail, head, out, nextVal, wlog,
                  rlog, claim, sawFull, sawEmpty, didStore, refVars, mirror, draftVars,
                  moreVars>>
nonArenaVars == <<offArenaVars, freshVars>>

\* return from allocate: the scoped_lock is released
ArenaReturn(t, p) ==
  /\ pc'      = [pc      EXCEPT ![t] = "idle"]
  /\ ret'     = [ret     EXCEPT ![t] = IF p = 0 THEN "nullptr" ELSE "pointer"]
  /\ returned'  = [returned  EXCEPT ![t] = p]
  /\ m_mutex' = 0
  /\ object_size'      = [object_size      EXCEPT ![t] = 0]
  /\ object_alignment' = [object_alignment EXCEPT ![t] = 0]
  /\ current_addr'     = [current_addr     EXCEPT ![t] = 0]
  /\ aligned_addr'     = [aligned_addr     EXCEPT ![t] = 0]

\* void* allocate(size_t object_size, size_t object_alignment): invocation
AllocateCall(t, size, alignment) ==
  /\ pc[t] = "idle"
  /\ numCalls < MaxCalls
  /\ numCalls' = numCalls + 1
  /\ pc'  = [pc  EXCEPT ![t] = "a_lock"]
  /\ op'  = [op  EXCEPT ![t] = "allocate"]
  /\ ret' = [ret EXCEPT ![t] = "run"]
  /\ object_size'      = [object_size      EXCEPT ![t] = size]
  /\ object_alignment' = [object_alignment EXCEPT ![t] = alignment]
  /\ UNCHANGED <<m_start, m_end, m_current, m_mutex, current_addr, aligned_addr,
                 returned, chunks, nonArenaVars>>

\* std::scoped_lock lock(m_mutex);
AllocateLock(t) ==
  /\ pc[t] = "a_lock"
  /\ m_mutex = 0
  /\ m_mutex' = t
  /\ pc' = [pc EXCEPT ![t] = "a_align"]
  /\ UNCHANGED <<m_start, m_end, m_current, op, ret, object_size, object_alignment,
                 current_addr, aligned_addr, returned, chunks, numCalls, nonArenaVars>>

\* current_addr = m_current; aligned_addr = (current_addr + ...) & ~(...);
AllocateAlign(t) ==
  /\ pc[t] = "a_align"
  /\ current_addr' = [current_addr EXCEPT ![t] = m_current]
  /\ aligned_addr' = [aligned_addr EXCEPT ![t] = AlignedAddr(m_current, object_alignment[t])]
  /\ pc' = [pc EXCEPT ![t] = "a_check"]
  /\ UNCHANGED <<m_start, m_end, m_current, m_mutex, op, ret, object_size,
                 object_alignment, returned, chunks, numCalls, nonArenaVars>>

\* if (aligned_addr + object_size > m_end) return nullptr;
AllocateCheck(t) ==
  /\ pc[t] = "a_check"
  /\ IF (aligned_addr[t] + object_size[t]) % AddrModulus > m_end
       THEN ArenaReturn(t, 0)
       ELSE /\ pc' = [pc EXCEPT ![t] = "a_bump"]
            /\ UNCHANGED <<ret, returned, m_mutex, object_size, object_alignment,
                           current_addr, aligned_addr>>
  /\ UNCHANGED <<m_start, m_end, m_current, op, chunks, numCalls, nonArenaVars>>

\* m_current = aligned_addr + object_size; return aligned_addr;
AllocateBump(t) ==
  /\ pc[t] = "a_bump"
  /\ m_current' = (aligned_addr[t] + object_size[t]) % AddrModulus
  /\ chunks' = IF aligned_addr[t] = 0
                 THEN chunks
                 ELSE Append(chunks, [p |-> aligned_addr[t], size |-> object_size[t]])
  /\ ArenaReturn(t, aligned_addr[t])
  /\ UNCHANGED <<m_start, m_end, op, numCalls, nonArenaVars>>

Allocate(t) ==
  \/ AllocateLock(t)
  \/ AllocateAlign(t)
  \/ AllocateCheck(t)
  \/ AllocateBump(t)

\* one arena of up to MaxArena bytes; the queues are not used
InitArena ==
  /\ NewQueues([q \in Queues |-> 0])
  /\ NewThreads
  /\ nextVal = 1
  /\ wlog = [q \in Queues |-> <<>>]
  /\ rlog = [q \in Queues |-> <<>>]
  /\ NewRef
  /\ NewDraft
  /\ NewExtra
  /\ \E total_size \in 0..MaxArena : NewArena(total_size)

\* the threads call allocate on the one arena; nobody calls reset
NextArena ==
  \E t \in Threads :
    \/ \E size \in Sizes : \E alignment \in Alignments : AllocateCall(t, size, alignment)
    \/ Allocate(t)

SpecArena == InitArena /\ [][NextArena]_vars

\* ------------------------------------ the ArenaAllocator, single-threaded
\* allocate of src/inc/arena_allocator.h on an arena whose bump pointer is
\* current and whose buffer ends at end: the pointer returned (0 for
\* nullptr) and the bump pointer afterwards
AllocateFrom(current, end, size, alignment) ==
  LET aligned == AlignedAddr(current, alignment)
  IN  IF (aligned + size) % AddrModulus > end
        THEN [p |-> 0, current |-> current]
        ELSE [p |-> aligned, current |-> (aligned + size) % AddrModulus]

\* (mutant) reset leaves the bump pointer where it is
ArenaReset_Keep ==
  /\ numResets < MaxResets
  /\ numResets' = numResets + 1
  /\ fresh_current' = m_start
  /\ op'  = [op  EXCEPT ![Solo] = "reset"]
  /\ ret' = [ret EXCEPT ![Solo] = "void"]
  /\ UNCHANGED <<m_current, m_start, m_end, m_mutex, pc, object_size, object_alignment,
                 current_addr, aligned_addr, returned, fresh_returned, chunks,
                 numCalls, offArenaVars>>

\* void reset(): m_current = m_start
ArenaReset ==
  /\ numResets < MaxResets
  /\ numResets' = numResets + 1
  /\ m_current' = m_start
  /\ fresh_current' = m_start
  /\ op'  = [op  EXCEPT ![Solo] = "reset"]
  /\ ret' = [ret EXCEPT ![Solo] = "void"]
  /\ UNCHANGED <<m_start, m_end, m_mutex, pc, object_size, object_alignment,
                 current_addr, aligned_addr, returned, fresh_returned, chunks,
                 numCalls, offArenaVars>>

\* void* allocate(size_t object_size, size_t object_alignment), start to end;
\* the arguments and the locals of the call stay readable afterwards, and
\* the fresh arena receives the same call
ArenaAllocate(size, alignment) ==
  LET a == AllocateFrom(m_current, m_end, size, alignment)
      f == AllocateFrom(fresh_current, m_end, size, alignment)
  IN  /\ numCalls < MaxCalls
      /\ numCalls' = numCalls + 1
      /\ m_current' = a.current
      /\ returned'  = [returned EXCEPT ![Solo] = a.p]
      /\ fresh_current'  = f.current
      /\ fresh_returned' = f.p
      /\ op'  = [op  EXCEPT ![Solo] = "allocate"]
      /\ ret' = [ret EXCEPT ![Solo] = IF a.p = 0 THEN "nullptr" ELSE "pointer"]
      /\ object_size'      = [object_size      EXCEPT ![Solo] = size]
      /\ object_alignment' = [object_alignment EXCEPT ![Solo] = alignment]
      /\ current_addr'     = [current_addr     EXCEPT ![Solo] = m_current]
      /\ aligned_addr'     = [aligned_addr     EXCEPT ![Solo] = AlignedAddr(m_current, alignment)]
      /\ chunks' = IF a.p = 0 THEN chunks ELSE Append(chunks, [p |-> a.p, size |-> size])
      /\ UNCHANGED <<m_start, m_end, m_mutex, pc, numResets, offArenaVars>>

\* one caller allocates from and resets the one arena
NextArenaSeq ==
  \/ \E size \in Sizes : \E alignment \in Alignments : ArenaAllocate(size, alignment)
  \/ ArenaReset

SpecArenaSeq == InitArena /\ [][NextArenaSeq]_vars

\* ------------------------------------------------------------ SmallVector
\* everything but the vector
coreVars == <<queueVars, pc, op, self, victim, item, tail, head, out, ret, nextVal,
              wlog, rlog, claim, sawFull, sawEmpty, didStore, refVars, mirror,
              draftVars, arenaVars, freshVars>>
offVectorVars == <<coreVars, bufferVars, retryVars>>

\* the slot holds an object: the index is inside the current buffer and an
\* element was constructed there and not destroyed since
Alive(v, i) == i < v.m_capacity /\ v.m_storage[i] # NoObject

\* the new heap buffer of push_back: the m_size elements moved over, then
\* the new element
Regrown(v, element, new_capacity) ==
  [i \in 0..(new_capacity - 1) |->
     IF i < v.m_size THEN v.m_storage[i]
     ELSE IF i = v.m_size THEN element ELSE NoObject]

\* (mutant) push_back that grows without clearing m_on_stack
PushBackOn_StayOnStack(v, element) ==
  LET new_capacity == IF v.m_capacity = 0 THEN 1 ELSE v.m_capacity * 2
  IN  IF v.m_size < v.m_capacity
        THEN [v EXCEPT !.m_storage[v.m_size] = element, !.m_size = v.m_size + 1]
        ELSE [m_size |-> v.m_size + 1, m_capacity |-> new_capacity,
              m_on_stack |-> v.m_on_stack,
              m_storage |-> Regrown(v, element, new_capacity)]

\* push_back(element) on the vector v
PushBackOn(v, element) ==
  IF v.m_on_stack
    THEN IF v.m_size < N
           THEN [v EXCEPT !.m_storage[v.m_size] = element, !.m_size = v.m_size + 1]
           ELSE LET new_capacity == IF N = 0 THEN 1 ELSE N * 2
                IN  [m_size |-> v.m_size + 1, m_capacity |-> new_capacity,
                     m_on_stack |-> FALSE,
                     m_storage |-> Regrown(v, element, new_capacity)]
    ELSE IF v.m_size < v.m_capacity
           THEN [v EXCEPT !.m_storage[v.m_size] = element, !.m_size = v.m_size + 1]
           ELSE LET new_capacity == IF v.m_capacity = 0 THEN 1 ELSE v.m_capacity * 2
                IN  [m_size |-> v.m_size + 1, m_capacity |-> new_capacity,
                     m_on_stack |-> FALSE,
                     m_storage |-> Regrown(v, element, new_capacity)]

\* the indexes push_back destroys: the moved-from elements when it grows
PushBackDestroys(v) ==
  IF (v.m_on_stack /\ v.m_size < N) \/ (~v.m_on_stack /\ v.m_size < v.m_capacity)
    THEN <<>>
    ELSE [k \in 1..v.m_size |-> k - 1]

\* pop_back on a non-empty vector v: ~T() on slot m_size, then --m_size
PopBackOn(v) ==
  [m_size |-> v.m_size - 1, m_capacity |-> v.m_capacity, m_on_stack |-> v.m_on_stack,
   m_storage |-> [i \in DOMAIN v.m_storage |->
                    IF i = v.m_size THEN NoObject ELSE v.m_storage[i]]]

\* clear() on the vector v: pop_back until empty
RECURSIVE ClearOn(_)
ClearOn(v) == IF v.m_size = 0 THEN v ELSE ClearOn(PopBackOn(v))

\* what is recorded of every call on the vector
VectorCall(name, arg) ==
  /\ sv_ret # "fault"
  /\ sv_prev' = sv
  /\ sv_op' = [name |-> name, arg |-> arg]
  /\ UNCHANGED <<N, offVectorVars>>

\* void push_back(U&& element)
push_back(element) ==
  /\ Len(pushed) < MaxOps
  /\ VectorCall("push_back", element)
  /\ sv' = PushBackOn(sv, element)
  /\ destroyed' = PushBackDestroys(sv)
  /\ pushed' = Append(pushed, element)
  /\ sv_ret' = "void"
  /\ UNCHANGED <<sv_out, popped>>

\* void pop_back(): on a slot that holds no object the destructor call is
\* undefined; it either goes unnoticed or ends the program
pop_back ==
  /\ VectorCall("pop_back", 0)
  /\ popped' = TRUE
  /\ IF sv.m_size = 0
       THEN /\ sv_ret' = "out_of_range"
            /\ destroyed' = <<>>
            /\ UNCHANGED sv
       ELSE \/ /\ sv' = PopBackOn(sv)
               /\ destroyed' = <<sv.m_size>>
               /\ sv_ret' = "void"
            \/ /\ ~Alive(sv, sv.m_size)
               /\ sv_ret' = "fault"
               /\ destroyed' = <<sv.m_size>>
               /\ UNCHANGED sv
  /\ UNCHANGED <<sv_out, pushed>>

\* void clear() noexcept: while (!empty()) pop_back();
clear ==
  /\ VectorCall("clear", 0)
  /\ popped' = TRUE
  /\ \/ /\ sv' = ClearOn(sv)
        /\ destroyed' = [k \in 1..sv.m_size |-> sv.m_size + 1 - k]
        /\ sv_ret' = "void"
     \/ /\ sv.m_size > 0 /\ ~Alive(sv, sv.m_size)
        /\ sv_ret' = "fault"
        /\ destroyed' = <<sv.m_size>>
        /\ UNCHANGED sv
  /\ UNCHANGED <<sv_out, pushed>>

\* get_element(index): the object in the slot; a slot that holds none, or
\* an index outside the buffer, reads as any value or ends the program
GetElement(index) ==
  \/ /\ Alive(sv, index)
     /\ sv_ret' = "value"
     /\ sv_out' = sv.m_storage[index]
  \/ /\ ~Alive(sv, index)
     /\ sv_ret' = "value"
     /\ sv_out' \in Ids
  \/ /\ index >= sv.m_capacity
     /\ sv_ret' = "fault"
     /\ UNCHANGED sv_out

\* T& operator[](size_t index), const T& operator[](size_t index) const
Subscript(index) ==
  /\ VectorCall("operator[]", index)
  /\ GetElement(index)
  /\ destroyed' = <<>>
  /\ UNCHANGED <<sv, pushed, popped>>

\* T at(size_t index), const T at(size_t index) const
at(index) ==
  /\ VectorCall("at", index)
  /\ IF index >= sv.m_size
       THEN sv_ret' = "out_of_range" /\ UNCHANGED sv_out
       ELSE GetElement(index)
  /\ destroyed' = <<>>
  /\ UNCHANGED <<sv, pushed, popped>>

\* a vector SmallVector<T, N> for some N, default constructed
InitVector ==
  /\ NewQueues([q \in Queues |-> 0])
  /\ NewThreads
  /\ nextVal = 1
  /\ wlog = [q \in Queues |-> <<>>]
  /\ rlog = [q \in Queues |-> <<>>]
  /\ NewRef
  /\ NewDraft
  /\ NewArena(0)
  /\ NewFresh
  /\ NewBuffers
  /\ NewRetry
  /\ \E n \in 1..MaxN : NewVector(n)

\* one caller uses the vector
NextVector ==
  \/ \E element \in Ids : push_back(element)
  \/ pop_back
  \/ clear
  \/ \E index \in 0..MaxIndex : Subscript(index)
  \/ \E index \in 0..MaxIndex : at(index)

SpecVector == InitVector /\ [][NextVector]_vars

\* ----------------------------------------------------------- UniqueBuffer
\* everything but the buffers
offBufferVars == <<coreVars, vectorVars, retryVars>>

\* std::unique_ptr<T[]>::reset / destructor: delete[] of the owned array
Deleted(h, block) ==
  IF block = Null THEN h ELSE [h EXCEPT ![block].state = "freed"]

\* what is recorded when a call starts
BufferCall(name, dst, src, i) ==
  /\ ub_pc = "idle"
  /\ ub_op' = [name |-> name, dst |-> dst, src |-> src, i |-> i]
  /\ ub_prev' = ub
  /\ UNCHANGED offBufferVars

\* what a later step of a call leaves alone
BufferStep == UNCHANGED <<ub_op, ub_prev, ub_out, offBufferVars>>

\* UniqueBuffer<T>(): m_size(0), m_buffer(nullptr)
DefaultConstruct(b) ==
  /\ ~ub[b].constructed
  /\ BufferCall("ctor", b, b, 0)
  /\ ub' = [ub EXCEPT ![b] = [constructed |-> TRUE, m_size |-> 0, m_buffer |-> Null]]
  /\ ub_ret' = "void"
  /\ UNCHANGED <<heap, ub_pc, ub_out>>

\* UniqueBuffer<T>(size_t size): m_size(size), m_buffer(std::make_unique<T[]>(size))
SizeConstruct(b, size) ==
  /\ ~ub[b].constructed
  /\ \E k \in Blocks :
       /\ heap[k].state = "unused"
       /\ \A j \in Blocks : j < k => heap[j].state # "unused"
       /\ heap' = [heap EXCEPT ![k] = [state |-> "live", len |-> size]]
       /\ ub' = [ub EXCEPT ![b] = [constructed |-> TRUE, m_size |-> size, m_buffer |-> k]]
  /\ BufferCall("ctor", b, b, size)
  /\ ub_ret' = "void"
  /\ UNCHANGED <<ub_pc, ub_out>>

\* ~UniqueBuffer(): the unique_ptr member deletes the array
Destruct(b) ==
  /\ ub[b].constructed
  /\ BufferCall("dtor", b, b, 0)
  /\ heap' = Deleted(heap, ub[b].m_buffer)
  /\ ub' = [ub EXCEPT ![b] = [constructed |-> FALSE, m_size |-> 0, m_buffer |-> Null]]
  /\ ub_ret' = "void"
  /\ UNCHANGED <<ub_pc, ub_out>>

\* UniqueBuffer<T>(UniqueBuffer<T>&& src): invocation on raw storage
MoveCtorCall(dst, src) ==
  /\ ~ub[dst].constructed /\ ub[src].constructed
  /\ BufferCall("move_ctor", dst, src, 0)
  /\ ub_pc' = "mc_size"
  /\ ub_ret' = "run"
  /\ UNCHANGED <<ub, heap, ub_out>>

\* m_size(std::exchange(src.m_size, 0))
MoveCtorSize ==
  /\ ub_pc = "mc_size"
  /\ ub' = [ub EXCEPT ![ub_op.dst].m_size = ub[ub_op.src].m_size,
                      ![ub_op.src].m_size = 0]
  /\ ub_pc' = "mc_buffer"
  /\ UNCHANGED <<heap, ub_ret>>
  /\ BufferStep

\* m_buffer(std::move(src.m_buffer))
MoveCtorBuffer ==
  /\ ub_pc = "mc_buffer"
  /\ ub' = [ub EXCEPT ![ub_op.dst].m_buffer = ub[ub_op.src].m_buffer,
                      ![ub_op.dst].constructed = TRUE,
                      ![ub_op.src].m_buffer = Null]
  /\ ub_pc' = "idle"
  /\ ub_ret' = "void"
  /\ UNCHANGED heap
  /\ BufferStep

\* operator=(UniqueBuffer<T>&& src): invocation
MoveAssignCall(dst, src) ==
  /\ ub[dst].constructed /\ ub[src].constructed
  /\ BufferCall("move_assign", dst, src, 0)
  /\ ub_pc' = "ma_test"
  /\ ub_ret' = "run"
  /\ UNCHANGED <<ub, heap, ub_out>>

\* (mutant) move assignment without the self-assignment test
MoveAssignTest_Always ==
  /\ ub_pc = "ma_test"
  /\ ub_pc' = "ma_buffer"
  /\ UNCHANGED <<ub, heap, ub_ret>>
  /\ BufferStep

\* if (this != &src) ... return *this;
MoveAssignTest ==
  /\ ub_pc = "ma_test"
  /\ IF ub_op.dst # ub_op.src
       THEN ub_pc' = "ma_buffer" /\ UNCHANGED ub_ret
       ELSE ub_pc' = "idle" /\ ub_ret' = "void"
  /\ UNCHANGED <<ub, heap>>
  /\ BufferStep

\* m_buffer = std::move(src.m_buffer): reset(src.m_buffer.release())
MoveAssignBuffer ==
  /\ ub_pc = "ma_buffer"
  /\ LET released == ub[ub_op.src].m_buffer
         emptied  == [ub EXCEPT ![ub_op.src].m_buffer = Null]
     IN  /\ heap' = Deleted(heap, emptied[ub_op.dst].m_buffer)
         /\ ub' = [emptied EXCEPT ![ub_op.dst].m_buffer = released]
  /\ ub_pc' = "ma_size"
  /\ UNCHANGED ub_ret
  /\ BufferStep

\* m_size = src.m_size
MoveAssignSize ==
  /\ ub_pc = "ma_size"
  /\ ub' = [ub EXCEPT ![ub_op.dst].m_size = ub[ub_op.src].m_size]
  /\ ub_pc' = "ma_null"
  /\ UNCHANGED <<heap, ub_ret>>
  /\ BufferStep

\* src.m_buffer = nullptr
MoveAssignNull ==
  /\ ub_pc = "ma_null"
  /\ heap' = Deleted(heap, ub[ub_op.src].m_buffer)
  /\ ub' = [ub EXCEPT ![ub_op.src].m_buffer = Null]
  /\ ub_pc' = "ma_zero"
  /\ UNCHANGED ub_ret
  /\ BufferStep

\* src.m_size = 0; return *this
MoveAssignZero ==
  /\ ub_pc = "ma_zero"
  /\ ub' = [ub EXCEPT ![ub_op.src].m_size = 0]
  /\ ub_pc' = "idle"
  /\ ub_ret' = "void"
  /\ UNCHANGED heap
  /\ BufferStep

\* (mutant) operator[] that lets i = m_size through
IndexThrows_Greater(b, i) == i > ub[b].m_size

\* if (i >= m_size) throw std::out_of_range(...)
IndexThrows(b, i) == i >= ub[b].m_size

\* T& operator[](size_t i)
Index(b, i) ==
  /\ ub[b].constructed
  /\ BufferCall("operator[]", b, b, i)
  /\ IF IndexThrows(b, i)
       THEN ub_ret' = "out_of_range" /\ UNCHANGED ub_out
       ELSE ub_ret' = "ref" /\ ub_out' = [block |-> ub[b].m_buffer, slot |-> i]
  /\ UNCHANGED <<ub, heap, ub_pc>>

\* no buffer yet
InitBuffer ==
  /\ NewQueues([q \in Queues |-> 0])
  /\ NewThreads
  /\ nextVal = 1
  /\ wlog = [q \in Queues |-> <<>>]
  /\ rlog = [q \in Queues |-> <<>>]
  /\ NewRef
  /\ NewDraft
  /\ NewArena(0)
  /\ NewExtra

\* one caller constructs, moves, indexes and destroys the buffers
NextBuffer ==
  \/ \E b \in Buffers : DefaultConstruct(b)
  \/ \E b \in Buffers : \E size \in 0..MaxSize : SizeConstruct(b, size)
  \/ \E b \in Buffers : Destruct(b)
  \/ \E dst, src \in Buffers : MoveCtorCall(dst, src)
  \/ MoveCtorSize
  \/ MoveCtorBuffer
  \/ \E dst, src \in Buffers : MoveAssignCall(dst, src)
  \/ MoveAssignTest
  \/ MoveAssignBuffer
  \/ MoveAssignSize
  \/ MoveAssignNull
  \/ MoveAssignZero
  \/ \E b \in Buffers : \E i \in 0..(MaxSize + 1) : Index(b, i)

SpecBuffer == InitBuffer /\ [][NextBuffer]_vars

\* ------------------------------- the retry loops, compare-and-swap exact
\* what a lost compare-and-swap leaves alone besides the caller's locals
lostFrame == <<queueVars, op, self, victim, item, out, ret, nextVal, wlog, rlog,
               claim, sawFull, sawEmpty, didStore, refVars, mirror, draftVars,
               arenaVars, freshVars, vectorVars, bufferVars, claimsAtCall>>

\* what a call leaves alone besides the queue and its history
callFrame == <<refVars, mirror, draftVars, arenaVars, freshVars, vectorVars,
               bufferVars>>

\* (mutant) the compare-and-swap on m_write may fail though the cursor stands
PushCasLost_Spurious(t) ==
  /\ pc[t] = "push_cas"
  /\ tail' = [tail EXCEPT ![t] = m_write[self[t]]]
  /\ pc'   = [pc   EXCEPT ![t] = "push_tail"]
  /\ iterations' = [iterations EXCEPT ![t] = @ + 1]
  /\ UNCHANGED <<head, lostFrame>>

\* m_write.compare_exchange_weak(tail, tail + 1) fails because m_write is
\* no longer tail: the next iteration starts
PushCasLost(t) ==
  /\ pc[t] = "push_cas"
  /\ m_write[self[t]] # tail[t]
  /\ tail' = [tail EXCEPT ![t] = m_write[self[t]]]
  /\ pc'   = [pc   EXCEPT ![t] = "push_tail"]
  /\ iterations' = [iterations EXCEPT ![t] = @ + 1]
  /\ UNCHANGED <<head, lostFrame>>

\* m_read.compare_exchange_weak(head, head + 1) fails because m_read is no
\* longer head: the next iteration starts
PopCasLost(t) ==
  /\ pc[t] = "pop_cas"
  /\ m_read[self[t]] # head[t]
  /\ head' = [head EXCEPT ![t] = m_read[self[t]]]
  /\ pc'   = [pc   EXCEPT ![t] = "pop_head"]
  /\ iterations' = [iterations EXCEPT ![t] = @ + 1]
  /\ UNCHANGED <<tail, lostFrame>>

\* victim.m_read.compare_exchange_weak(head, head + 1) fails because
\* victim.m_read is no longer head: the next iteration starts
StealCasLost(t) ==
  /\ pc[t] = "steal_cas"
  /\ m_read[victim[t]] # head[t]
  /\ head' = [head EXCEPT ![t] = m_read[victim[t]]]
  /\ pc'   = [pc   EXCEPT ![t] = "steal_head"]
  /\ iterations' = [iterations EXCEPT ![t] = @ + 1]
  /\ UNCHANGED <<tail, lostFrame>>

\* a call starts its first iteration; the claims made so far on the cursor
\* it will advance are counted
RetryCall(t, made) ==
  /\ iterations'   = [iterations   EXCEPT ![t] = 1]
  /\ claimsAtCall' = [claimsAtCall EXCEPT ![t] = made]
  /\ UNCHANGED callFrame

\* the steps of thread t inside a call
RetryStep(t) ==
  \/ PushLoadTail(t)
  \/ PushLoadHead(t)
  \/ PushFill(t)
  \/ PushCasOk(t)
  \/ PushCasLost(t)
  \/ PopLoadHead(t)
  \/ PopLoadTail(t)
  \/ PopCasOk(t)
  \/ PopCasLost(t)
  \/ PopMove(t)
  \/ StealLoadHead(t)
  \/ StealLoadTail(t)
  \/ StealCasOk(t)
  \/ StealCasLost(t)
  \/ StealMove(t)

\* every thread pushes on queue Q1; the first thread takes with pop, the
\* others with steal
NextRetry ==
  \E t \in Threads :
    \/ nextVal <= MaxVal /\ PushCall(t, Q1, nextVal) /\ RetryCall(t, Len(wlog[Q1]))
    \/ t = Solo /\ PopCall(t, Q1) /\ RetryCall(t, Len(rlog[Q1]))
    \/ t # Solo /\ StealCall(t, Q1, Q1) /\ RetryCall(t, Len(rlog[Q1]))
    \/ RetryStep(t)

\* a thread inside a call keeps running
SpecRetry ==
  /\ Init
  /\ [][NextRetry]_vars
  /\ \A t \in Threads : WF_vars(RetryStep(t))

\* ---------------------------------------------------------------- history
\* tokens whose push returned true on queue q
PushedTrue(q) == {wlog[q][k].item : k \in DOMAIN wlog[q]}

\* tokens delivered by successful pops / steals from queue q
Delivered(q) == {rlog[q][k] : k \in DOMAIN rlog[q]} \ {NoVal}

\* a push of token v is still running
PushInFlight(v) == \E t \in Threads : pc[t] # "idle" /\ op[t] = "push" /\ item[t] = v

\* write claims of queue q whose value has not been moved out yet
LiveClaims(q) ==
  {k \in DOMAIN wlog[q] : k > Len(rlog[q]) \/ rlog[q][k] = NoVal}

LiveSlots(q) == {wlog[q][k].slot : k \in LiveClaims(q)}

Quiescent == \A t \in Threads : pc[t] = "idle"

\* ----------------------------------------------------------------- claims

\* C1: with distinct pushed tokens, no token is returned by more than one
\* successful pop / steal.
C1_NoDuplication ==
  \A q \in Queues : \A i, j \in DOMAIN rlog[q] :
    (i # j /\ rlog[q][i] # NoVal) => rlog[q][i] # rlog[q][j]

\* C2: once every call has returned and the queue is drained, every token
\* whose push returned true has been returned by some successful pop / steal.
C2_NoLoss ==
  \A q \in Queues :
    (Quiescent /\ m_read[q] = m_write[q]) => PushedTrue(q) \subseteq Delivered(q)

\* C3: every delivered value is the argument of a push on that queue that
\* returned true (a push still running may yet return true).
C3_DeliveredWasPushed ==
  \A q \in Queues : \A v \in Delivered(q) :
    v \in PushedTrue(q) \/ PushInFlight(v)

\* C4: the pop / steal that advances the read cursor from k to k+1 returns
\* the value of the push that advanced the write cursor from k to k+1.
C4_ClaimOrder ==
  \A q \in Queues : \A k \in DOMAIN rlog[q] :
    rlog[q][k] # NoVal => (k \in DOMAIN wlog[q] /\ rlog[q][k] = wlog[q][k].item)

\* C5: with pre-filled queues and no push, pops and steals return each
\* pre-filled token at most once, only tokens of the queue they take from,
\* never more tokens than were filled in, and all of them once drained.
C5_DrainExactlyOnce ==
  \A q \in Queues :
    /\ Len(rlog[q]) <= Len(wlog[q])
    /\ Delivered(q) \subseteq PushedTrue(q)
    /\ \A i, j \in DOMAIN rlog[q] :
         (i # j /\ rlog[q][i] # NoVal) => rlog[q][i] # rlog[q][j]
    /\ (Quiescent /\ m_read[q] = m_write[q]) => Delivered(q) = PushedTrue(q)
    /\ \A t \in Threads :
         (pc[t] = "idle" /\ ret[t] = "true" /\ victim[t] = q) => out[t] \in PushedTrue(q)

\* C5 witness: a queue holding two tokens was drained by a pop and a steal
C5_Witness ==
  \E q \in Queues : \E t1, t2 \in Threads :
    /\ Len(wlog[q]) >= 2 /\ m_read[q] = m_write[q] /\ Quiescent
    /\ op[t1] = "pop" /\ ret[t1] = "true" /\ victim[t1] = q
    /\ op[t2] = "steal" /\ ret[t2] = "true" /\ victim[t2] = q
    /\ out[t1] # out[t2]

\* C6: with one producer and one consumer, the i-th successful pop returns
\* the i-th pushed token (the producer pushes 1, 2, 3, ...).
C6_SpscFifo ==
  \A k \in DOMAIN rlog[Q1] : rlog[Q1][k] # NoVal => rlog[Q1][k] = k

\* C7: in a sequential run every call returns what the reference bounded
\* FIFO of the same capacity returns, and leaves the same value in out.
C7_MatchesReferenceFifo ==
  (pc[Solo] = "idle" /\ op[Solo] # "none") =>
    /\ ret[Solo] = refRet
    /\ out[Solo] = refOut

\* C7 witness: the ring has wrapped (a push into a slot used before), a push
\* was refused on a full queue, and a pop then returned a value
C7_Witness ==
  /\ pc[Solo] = "idle" /\ op[Solo] \in {"pop", "steal"} /\ ret[Solo] = "true"
  /\ Len(wlog[Q1]) > m_capacity[Q1]
  /\ Len(rlog[Q1]) > m_capacity[Q1]
  /\ nextVal > Len(wlog[Q1]) + 1

\* C8: no push stores into a slot that holds an element made visible by a
\* successful push and not yet moved out by the pop / steal that claims it.
C8_NoStoreIntoLiveSlot ==
  [][\A t \in Threads :
       PushFill(t) => SlotOf(tail[t], m_capacity[self[t]]) \notin LiveSlots(self[t])]_vars

\* C9: m_read <= m_write <= m_read + C in every reachable state.
C9_OccupancyWithinCapacity ==
  \A q \in Queues :
    /\ m_read[q] <= m_write[q]
    /\ m_write[q] <= m_read[q] + m_capacity[q]

\* C9 witness: the ring has turned over, the queue is full, and a racing
\* push has filled a slot and is about to try its compare-and-swap
C9_Witness ==
  \E q \in Queues : \E t \in Threads :
    /\ m_read[q] >= 1
    /\ m_write[q] = m_read[q] + m_capacity[q]
    /\ pc[t] = "push_cas" /\ self[t] = q

\* C10: a push returns false only if the queue held exactly C elements at
\* some instant between the push's invocation and its return.
C10_FalseOnlyWhenFull ==
  \A t \in Threads :
    (pc[t] = "idle" /\ op[t] = "push" /\ ret[t] = "false") => sawFull[t]

\* C11: a pop / steal returns false only if the target queue held no element
\* (m_read = m_write) at some instant between invocation and return.
C11_FalseOnlyWhenEmpty ==
  \A t \in Threads :
    (pc[t] = "idle" /\ op[t] \in {"pop", "steal"} /\ ret[t] = "false") => sawEmpty[t]

\* C11 witness: tokens were pushed and all of them claimed, a pop or steal
\* then returned false, while another thread is inside a call
C11_Witness ==
  \E t \in Threads : \E u \in Threads \ {t} :
    /\ pc[t] = "idle" /\ op[t] \in {"pop", "steal"} /\ ret[t] = "false"
    /\ Len(wlog[victim[t]]) >= 1
    /\ m_read[victim[t]] = m_write[victim[t]]
    /\ pc[u] # "idle"

\* C12: a push that returns false stored into no storage slot during the call
\* (and the cursors are only changed by a successful compare-and-swap, which
\* returns true).
C12_FailedPushStoresNothing ==
  \A t \in Threads :
    (pc[t] = "idle" /\ op[t] = "push" /\ ret[t] = "false") => ~didStore[t]

\* C13: on a queue constructed with capacity 0 every push, pop and steal
\* returns false and no call reaches a slot access.
C13_ZeroCapacityAlwaysFails ==
  \A t \in Threads :
    m_capacity[victim[t]] = 0 =>
      /\ pc[t] \notin {"push_fill", "push_cas", "pop_cas", "pop_move",
                       "steal_cas", "steal_move"}
      /\ (pc[t] = "idle" /\ op[t] # "none") => ret[t] = "false"

\* C13 witness: on a capacity-0 queue one thread's push and the other
\* thread's steal have both returned false
C13_Witness ==
  \E t, u \in Threads :
    /\ m_capacity[Q1] = 0
    /\ pc[t] = "idle" /\ op[t] = "push" /\ ret[t] = "false"
    /\ pc[u] = "idle" /\ op[u] = "steal" /\ ret[u] = "false"

\* C14: from equal queue states, thief.steal(victim, out) gives the return
\* value, the out value and the resulting victim state that victim.pop(out)
\* gives, whether the thief is the victim or another queue.
C14_StealMatchesPop ==
  (Quiescent /\ mirror = "none" /\ op[Thief] = "steal") =>
    /\ ret[Thief] = ret[Owner]
    /\ out[Thief] = out[Owner]
    /\ m_capacity[Q2] = m_capacity[Q1]
    /\ m_write[Q2] = m_write[Q1]
    /\ m_read[Q2] = m_read[Q1]
    /\ m_entries[Q2] = m_entries[Q1]

\* C14 witness: on a ring that has wrapped, a steal by another queue took
\* the same token as the pop
C14_Witness ==
  /\ Quiescent /\ mirror = "none" /\ op[Thief] = "steal"
  /\ self[Thief] # victim[Thief]
  /\ ret[Thief] = "true" /\ ret[Owner] = "true"
  /\ out[Thief] = out[Owner]
  /\ m_read[Q2] > m_capacity[Q2]

\* cursors, capacity and storage of queue q
QueueState(q) == <<m_capacity[q], m_write[q], m_read[q], m_entries[q]>>

C16_MovedFromAlwaysFails ==
  [][\A t \in Threads :
       (pc'[t] # pc[t] /\ m_capacity'[victim'[t]] = 0) =>
         /\ pc'[t] \notin {"fault", "push_fill"}
         /\ pc'[t] = "idle" => ret'[t] = "false"]_vars

\* C17: (count-based draft) a push that has claimed a write slot, that is,
\* advanced m_write, returns true; push returns false only at the fullness
\* check that precedes the claim.
C17_ClaimedPushReturnsTrue ==
  \A t \in Threads :
    (pc[t] = "idle" /\ op[t] = "push" /\ ret[t] = "false") => ~hasClaimed[t]

\* C18: (count-based draft) a pop / steal that returns false has neither
\* advanced the read cursor nor assigned its out argument.
C18_FailedTakeChangesNothing ==
  \A t \in Threads :
    (pc[t] = "idle" /\ op[t] \in {"pop", "steal"} /\ ret[t] = "false") =>
      (~hasClaimed[t] /\ ~wroteOut[t])

\* C19: (count-based draft) with producers retrying refused pushes and
\* consumers calling pop or self-steal, every token whose push returned true
\* is returned by exactly one successful pop / steal: never by two, and by
\* one once all calls have returned and the count is 0.
C19_DraftExactlyOnce ==
  \A q \in Queues :
    /\ \A i, j \in DOMAIN rlog[q] :
         (i # j /\ rlog[q][i] \in PushedTrue(q)) => rlog[q][i] # rlog[q][j]
    /\ (Quiescent /\ m_count[q] = 0 /\ \A t \in Threads : ~Retrying(t)) =>
         PushedTrue(q) \subseteq Delivered(q)

\* C20: whatever the interleaving of allocate calls on one arena, with no
\* reset, the regions [p, p + size) of the successful allocations are
\* pairwise disjoint and lie inside the buffer [m_start, m_end).
C20_ChunksDisjointInsideArena ==
  /\ \A i \in DOMAIN chunks :
       m_start <= chunks[i].p /\ chunks[i].p + chunks[i].size <= m_end
  /\ \A i, j \in DOMAIN chunks :
       i < j => \/ chunks[i].p + chunks[i].size <= chunks[j].p
                \/ chunks[j].p + chunks[j].size <= chunks[i].p

\* the smallest multiple of alignment that is at least addr, in the integers
RoundUp(addr, alignment) == ((addr + alignment - 1) \div alignment) * alignment

\* C21: in a run of allocate calls by one caller with no reset, a non-null
\* result is a multiple of the requested alignment, lies with its size bytes
\* inside the arena and starts at or after the end of the previous successful
\* allocation; the call returns nullptr exactly when the aligned request would
\* pass the end of the arena.
C21_AllocateAlignedInsideInOrder ==
  (numResets = 0 /\ op[Solo] = "allocate" /\ pc[Solo] = "idle") =>
    /\ returned[Solo] # 0 =>
         /\ returned[Solo] % object_alignment[Solo] = 0
         /\ m_start <= returned[Solo]
         /\ returned[Solo] + object_size[Solo] <= m_end
         /\ \A i \in 1..(Len(chunks) - 1) :
              chunks[i].p + chunks[i].size <= chunks[i + 1].p
    /\ returned[Solo] = 0 <=>
         RoundUp(current_addr[Solo], object_alignment[Solo]) + object_size[Solo] > m_end

\* C22: after reset, the allocate calls return what the same calls return on
\* a freshly constructed arena of the same buffer, and the bump pointers of
\* the two arenas agree.
C22_ResetGivesFreshArena ==
  numResets > 0 =>
    /\ m_current = fresh_current
    /\ (op[Solo] = "allocate" => returned[Solo] = fresh_returned)

\* C22 witness: allocations were made, the arena was reset, and a later call
\* got the address of the first allocation ever made
C22_Witness ==
  /\ numResets > 0 /\ op[Solo] = "allocate"
  /\ Len(chunks) >= 2
  /\ returned[Solo] = chunks[1].p /\ returned[Solo] # 0
  /\ chunks[1].size > 0

\* elements 0..n-1 of the vector are those of the vector before the call
SameElements(n) ==
  \A i \in 0..(n - 1) : Alive(sv, i) /\ sv.m_storage[i] = sv_prev.m_storage[i]

\* C23: pop_back on a non-empty vector destroys exactly the last element
\* (index size-1), once, decreases size by one and leaves the elements
\* 0..size-2, the capacity and on_stack unchanged; on an empty vector it
\* throws std::out_of_range and changes nothing.
C23_PopBackDestroysLast ==
  sv_op.name = "pop_back" =>
    IF sv_prev.m_size = 0
      THEN sv_ret = "out_of_range" /\ sv = sv_prev /\ destroyed = <<>>
      ELSE /\ sv_ret = "void"
           /\ sv.m_size = sv_prev.m_size - 1
           /\ sv.m_capacity = sv_prev.m_capacity
           /\ sv.m_on_stack = sv_prev.m_on_stack
           /\ SameElements(sv.m_size)
           /\ destroyed = <<sv_prev.m_size - 1>>

\* C24: operator[] and at throw std::out_of_range for every index >= size()
\* and return the element at index for every index < size().
C24_AccessChecksBounds ==
  sv_op.name \in {"operator[]", "at"} =>
    IF sv_op.arg >= sv.m_size
      THEN sv_ret = "out_of_range"
      ELSE sv_ret = "value" /\ sv_out = sv.m_storage[sv_op.arg]

\* after pushes only: the vector holds the pushed values, in order
HoldsPushed ==
  /\ sv.m_size = Len(pushed)
  /\ sv.m_capacity >= sv.m_size
  /\ sv.m_on_stack <=> (Len(pushed) <= N)
  /\ \A i \in 0..(sv.m_size - 1) : Alive(sv, i) /\ sv.m_storage[i] = pushed[i + 1]

\* C25: after k push_back calls on a newly constructed SmallVector<T, N>,
\* size() = k, element i is the i-th pushed value, capacity() >= size() and
\* on_stack() holds exactly when k <= N; once the vector is on the heap,
\* pop_back and clear neither move it back to the stack nor change capacity.
C25_PushBackGrowsHeapStays ==
  [][ /\ ~popped' => HoldsPushed'
      /\ (~sv.m_on_stack /\ sv_op'.name \in {"pop_back", "clear"}) =>
           (~sv'.m_on_stack /\ sv'.m_capacity = sv.m_capacity) ]_vars

\* C25 witness: more than N values were pushed and the vector, cleared
\* afterwards, is empty and still on the heap
C25_Witness ==
  /\ sv_op.name = "clear" /\ sv_ret = "void"
  /\ Len(pushed) > N
  /\ sv_prev.m_size = Len(pushed)
  /\ sv.m_size = 0 /\ ~sv.m_on_stack /\ sv.m_capacity > N

\* C26: UniqueBuffer::operator[](i) throws std::out_of_range for every
\* i >= size() and returns a reference to slot i of the owned array for
\* every i < size().
C26_IndexChecksBounds ==
  (ub_op.name = "operator[]" /\ ub_pc = "idle") =>
    IF ub_op.i >= ub[ub_op.dst].m_size
      THEN ub_ret = "out_of_range"
      ELSE /\ ub_ret = "ref"
           /\ ub_out = [block |-> ub[ub_op.dst].m_buffer, slot |-> ub_op.i]
           /\ ub_out.block # Null
           /\ heap[ub_out.block].state = "live"
           /\ ub_out.slot < heap[ub_out.block].len

\* C26 witness: on a buffer that owns an array, the index equal to size()
\* threw
C26_Witness ==
  /\ ub_op.name = "operator[]" /\ ub_pc = "idle"
  /\ ub_ret = "out_of_range"
  /\ ub[ub_op.dst].m_size > 0
  /\ ub[ub_op.dst].m_buffer # Null
  /\ ub_op.i = ub[ub_op.dst].m_size

\* C27: the move constructor and the move assignment hand the array over:
\* afterwards the destination has the source's former size and buffer and
\* the source has size 0 and a null data pointer; at no point do two objects
\* own the same array; a self-move-assignment leaves the object unchanged.
C27_MoveTransfersOwnership ==
  /\ \A a, b \in Buffers :
       (a # b /\ ub[a].m_buffer # Null) => ub[a].m_buffer # ub[b].m_buffer
  /\ (ub_op.name \in {"move_ctor", "move_assign"} /\ ub_pc = "idle") =>
       IF ub_op.dst = ub_op.src
         THEN ub = ub_prev
         ELSE /\ ub[ub_op.dst].m_size = ub_prev[ub_op.src].m_size
              /\ ub[ub_op.dst].m_buffer = ub_prev[ub_op.src].m_buffer
              /\ ub[ub_op.src].m_size = 0
              /\ ub[ub_op.src].m_buffer = Null

\* C27 witness: a move assignment handed a live array to a buffer that
\* owned another one
C27_Witness ==
  /\ ub_op.name = "move_assign" /\ ub_pc = "idle" /\ ub_op.dst # ub_op.src
  /\ ub_prev[ub_op.dst].m_buffer # Null
  /\ ub[ub_op.dst].m_buffer # Null
  /\ heap[ub[ub_op.dst].m_buffer].state = "live"
  /\ ub[ub_op.dst].m_size > 0

\* the successful compare-and-swaps on the cursor of thread t's call since
\* the call started, the call's own one included
ClaimsSinceCall(t) ==
  (IF op[t] = "push" THEN Len(wlog[victim[t]]) ELSE Len(rlog[victim[t]]))
    - claimsAtCall[t]

\* thread t's call has won its compare-and-swap
HasWon(t) ==
  \/ pc[t] \in {"pop_move", "steal_move"}
  \/ pc[t] = "idle" /\ ret[t] = "true"

\* C28: without spurious failures, a call that has lost its compare-and-swap
\* n times has seen n successful claims of other threads on the same cursor,
\* so it makes at most k+1 iterations when the others complete k claims
\* during the call; and every call returns.
C28_RetriesBoundedByClaims ==
  /\ [](\A t \in Threads :
         op[t] # "none" =>
           iterations[t] <= (ClaimsSinceCall(t) - (IF HasWon(t) THEN 1 ELSE 0)) + 1)
  /\ \A t \in Threads : (pc[t] # "idle") ~> (pc[t] = "idle")

\* C28 witness: a call lost its compare-and-swap twice and then won it
C28_Witness ==
  \E t \in Threads :
    /\ iterations[t] = 3
    /\ pc[t] = "idle" /\ ret[t] = "true"
    /\ ClaimsSinceCall(t) = 3

\* the index thread t is about to pass to m_entries[...] of queue q
IndexPassed(t) ==
  IF pc[t] = "push_fill"
    THEN SlotOf(tail[t], m_capacity[victim[t]])
    ELSE SlotOf(head[t], m_capacity[victim[t]])

\* thread t is about to index the storage of the queue its call works on
AtAccess(t) == pc[t] \in {"push_fill", "pop_move", "steal_move"}

\* C29: on a queue constructed with capacity C >= 1 and never moved from,
\* every index push, pop or steal passes to UniqueBuffer::operator[] is in
\* [0, C), a slot of the storage, so no call throws std::out_of_range.
C29_IndexInsideStorage ==
  \A t \in Threads :
    /\ (AtAccess(t) /\ m_capacity[victim[t]] >= 1) =>
         /\ IndexPassed(t) >= 0
         /\ IndexPassed(t) < m_capacity[victim[t]]
         /\ IndexPassed(t) \in DOMAIN m_entries[victim[t]]
    /\ ret[t] # "out_of_range"

\* C29 witness: a thief whose own queue has another capacity is about to
\* index the victim's storage with a cursor that has passed the capacity
C29_Witness ==
  \E t \in Threads :
    /\ pc[t] = "steal_move"
    /\ self[t] # victim[t]
    /\ m_capacity[self[t]] # m_capacity[victim[t]]
    /\ m_capacity[victim[t]] >= 1
    /\ head[t] >= m_capacity[victim[t]]

\* C30: in the count-based draft, 0 <= m_count <= m_capacity in every
\* reachable state, under any interleaving of push, pop and steal.
C30_CountWithinCapacity ==
  \A q \in Queues : 0 <= m_count[q] /\ m_count[q] <= m_capacity[q]

\* C30 witness: the queue is full while a call that loaded a smaller count
\* is about to compare-and-swap m_count
C30_Witness ==
  \E t \in Threads :
    /\ pc[t] = "d_count_cas"
    /\ m_capacity[victim[t]] >= 2
    /\ m_count[victim[t]] = m_capacity[victim[t]]
    /\ current_count[t] < m_count[victim[t]]

\* C31: in the count-based draft, whenever no call is in flight, m_count is
\* the number of claims made through the write cursor minus the number of
\* claims made through the read cursor.
C31_CountMatchesCursors ==
  Quiescent => \A q \in Queues : m_count[q] = ahead[q]

\* thread t's push has claimed a slot and has not stored its item there yet
Unwritten(t) == op[t] = "push" /\ pc[t] = "d_store"

\* C32: in the count-based draft, a pop or steal never reads a slot that a
\* push has claimed and not yet written, and the read cursor never overtakes
\* the write cursor.
C32_ReadsOnlyWrittenSlots ==
  /\ \A t, u \in Threads :
       (pc[t] = "d_move" /\ Unwritten(u) /\ victim[u] = victim[t]) =>
         claimed_position[u] # claimed_position[t]
  /\ \A q \in Queues : ahead[q] >= 0

\* thread t's push holds a claim on a slot
HoldsWriteClaim(t) == op[t] = "push" /\ pc[t] # "idle" /\ hasClaimed[t]

\* C33: in the count-based draft, for every capacity C >= 1, no two pushes
\* in flight hold a claim on the same slot, and no push claims a slot whose
\* element no pop or steal has claimed yet (the write cursor never laps the
\* read cursor).
C33_ClaimIsExclusive ==
  \A q \in Queues :
    m_capacity[q] >= 1 =>
      /\ \A t, u \in Threads :
           (t # u /\ HoldsWriteClaim(t) /\ HoldsWriteClaim(u)
              /\ victim[t] = q /\ victim[u] = q) =>
             claimed_position[t] # claimed_position[u]
      /\ ahead[q] <= m_capacity[q]

\* ------------------------------------------------- cursors at the overflow
\* capacities of the overflow runs: one more than MaxCap, so that a capacity
\* that does not divide 2^CursorBits is among them
OverflowCaps == 1..(MaxCap + 1)

\* cursor values a few calls below 2^CursorBits
NearOverflow == (Modulus - MaxVal)..(Modulus - 1)

\* the queue after k successful push / pop pairs: empty, both cursors at k
\* (m_write and m_read only ever grow, part_000 lines 84 and 102); the runs
\* start with k just below the overflow of the counters
InitOverflow ==
  /\ \E c \in OverflowCaps, k \in NearOverflow :
       /\ m_capacity = [q \in Queues |-> c]
       /\ m_write    = [q \in Queues |-> k]
       /\ m_read     = [q \in Queues |-> k]
       /\ m_entries  = [q \in Queues |-> [i \in Slots(c) |-> ZeroInit]]
  /\ NewThreads
  /\ nextVal = 1
  /\ wlog = [q \in Queues |-> <<>>]
  /\ rlog = [q \in Queues |-> <<>>]
  /\ NewRef
  /\ NewOther

\* one thread calls push, pop and self-steal across the overflow
SpecOverflow == InitOverflow /\ [][NextSeq]_vars

\* the cursors of the elements of queue q, oldest first
LiveCursors(q) == {(m_read[q] + i) % Modulus : i \in 0..(Occupancy(q) - 1)}

\* C34: with cursors that overflow modulo 2^CursorBits, for every capacity
\* C >= 1 a sequential run that crosses the overflow returns from every call
\* what the reference bounded FIFO of capacity C returns (FIFO order and the
\* full test), and the elements in the queue sit in pairwise distinct slots
\* (the slot mapping cursor % C).
C34_CorrectAcrossOverflow ==
  /\ (pc[Solo] = "idle" /\ op[Solo] # "none") =>
       /\ ret[Solo] = refRet
       /\ out[Solo] = refOut
  /\ (pc[Solo] = "idle" /\ Occupancy(Q1) <= m_capacity[Q1]) =>
       \A c, d \in LiveCursors(Q1) :
         c # d => SlotOf(c, m_capacity[Q1]) # SlotOf(d, m_capacity[Q1])

\* ------------------------------------------- allocate that returns nullptr
\* the alignments of the calls, the invalid alignment 0 of the test
\* "Alignment is zero (invalid)" among them
AlignmentsOrZero == Alignments \cup {0}

\* one caller allocates, also with alignment 0, and resets
NextArenaNull ==
  \/ \E size \in Sizes : \E alignment \in AlignmentsOrZero : ArenaAllocate(size, alignment)
  \/ ArenaReset

SpecArenaNull == InitArena /\ [][NextArenaNull]_vars

\* C35: an allocate call that returned nullptr (out of space, or alignment 0)
\* has left the bump pointer where it was, so the next allocate call, whatever
\* its arguments, returns what it returns without the failed call; a call
\* with alignment 0 returns nullptr.
C35_NullLeavesArenaUnchanged ==
  (op[Solo] = "allocate" /\ pc[Solo] = "idle") =>
    /\ object_alignment[Solo] = 0 => returned[Solo] = 0
    /\ returned[Solo] = 0 =>
         /\ m_current = current_addr[Solo]
         /\ \A size \in Sizes : \A alignment \in AlignmentsOrZero :
              AllocateFrom(m_current, m_end, size, alignment).p
                = AllocateFrom(current_addr[Solo], m_end, size, alignment).p
====
